---- MODULE Spec2Model ----
(***************************************************************************)
(* Model of the ticket-sentiment platform: the ingestion job state machine *)
(* (backend/jobs/job_status.py), the chunked ingestion pipelines           *)
(* (backend/jobs/ingest_job.py, backend/jobs/parquet_ingest_job.py), the    *)
(* classification client (backend/services/nlp_client.py) and the          *)
(* trajectory analyzer (ml/sentiment_trajectory_analysis.py).               *)
(*                                                                         *)
(* The specifications share the variables:                                 *)
(*   Spec        job-status operations of two processes, interleaved at    *)
(*               the granularity of one key-value store command;           *)
(*   SpecIngest  one worker running ingestion tasks over chunks of rows;   *)
(*   SpecTraj    calls of analyze_trajectory on bounded inputs;            *)
(*   SpecScenario  analyze_trajectory on five-comment tickets;             *)
(*   SpecAgg     calls of calculate_ultimate on bounded fragment lists;    *)
(*   SpecCausal  calls of analyze_causal_factors on bounded populations;   *)
(*   SpecParse   calls of CommentParser.parse on bounded strings;          *)
(*   SpecMap     create_mapping and apply_mapping on bounded tables;       *)
(*   SpecMapCache  the mappings cached per source name, over the calls     *)
(*               made on a column mapper;                                  *)
(*   SpecSeq     the comment fragments a job stores, row by row;           *)
(*   SpecOps     the job-status calls on a store with and without the      *)
(*               key-value client, side by side, and list_jobs on both;    *)
(*   SpecSubmit  the submission endpoints: init_job, then the enqueue;     *)
(*   SpecTasks   SpecIngest with the parquet content task added;           *)
(*   SpecLive    Spec with the worker's steps taken fairly;                *)
(*   SpecAnalyzer  repeated analyze_trajectory calls on one analyzer;      *)
(*   SpecTicket  process_chunk writing a ticket's aggregate row by row.    *)
(***************************************************************************)
EXTENDS Integers, Sequences, FiniteSets, TLC

\* ------------------------------------------------------------------ bounds
MaxClock == 1
MaxChunks == 2
MaxDeliveries == 2
MaxRows == 2
MaxLen == 3
MaxFrags == 6
MaxTickets == 4
MaxSample == 3
MaxTokens == 6
MaxHeaders == 3
MaxTableRows == 1
MaxMapCalls == 3
MaxComments == 2
MaxSeqRows == 2
MaxSeqChunks == 2

\* --------------------------------------------------------------- constants
\* a dict key that is missing, or a value that is None
NoVal == -1
\* an update that does not name the key
Keep == -2
KeepS == "keep"

JobIds == {"j1"}
Procs == {"api", "worker"}

VARIABLES
  redisUp,      \* the shared key-value store answers commands
  client,       \* client[p]: cache.redis_client of process p is set
  redisStore,   \* job records held by the shared store
  redisIndex,   \* ingest_job:index, the job ids it holds
  localStore,   \* _local_store of each process
  localIndex,   \* _local_index of each process
  call,         \* the job-status call each process is inside of
  ret,          \* what the last finished call of each process returned
  clock,        \* the time _now_iso reads
  endpoint,     \* where the upload endpoint that created the job stands
  wpc,          \* the statement of the task the worker stands at
  stats,        \* the stats dict of the running task
  chunkNo,      \* chunks the running task has taken from its source
  deliveries,   \* times the task queue has delivered the job
  incLog,       \* per process: the counters its last increment_job_progress
                \* returned, while no other write has followed it

  kind,         \* which ingestion task the job runs
  source,       \* the payload: a sequence of chunks, each a sequence of rows
  failAt,       \* the chunk whose reading raises (0: the source is sound)
  fileExists,   \* the uploaded file is on disk
  pending,      \* rows added to the database session, not yet committed
  committed,    \* rows the database holds
  written,      \* rows the running task has added so far
  fatal,        \* the running task met a job-scope failure
  firstRun,     \* the job record as the first run left it
  trajComments, \* the comments of the last analyze_trajectory call
  trajPreds,    \* the sentiment predictions of that call
  trajResult,   \* what the call returned or raised
  aggFrags,     \* the sentiments list of the last calculate_ultimate call
  aggStrategy,  \* the strategy of that call
  aggResult,    \* the (sentiment, confidence, trend) tuple it returned
  causalTickets,  \* the descriptions of tickets_df, one per ticket
  causalMin,      \* min_sample_size of the analyze_causal_factors call
  causalResult,   \* the CausalFactor list it returned
  parseInput,   \* the argument of the last CommentParser.parse call
  parseResult,  \* what the call returned or raised
  mapTable,     \* the table handed to the column mapper: headers, row count
  mapMapping,   \* the mapping create_mapping returned for it
  mapResult,    \* the table apply_mapping returned
  mapCache,     \* ColumnMapper.mappings as saved: source name -> mapping
  mapFirst,     \* per source name, the mapping create_mapping made first
  mapCalls,     \* calls made on the column mapper so far
  seqSource,    \* the chunks of a job, each a sequence of rows with comments
  seqChunk,     \* chunks the job has finished
  seqRow,       \* rows of the current chunk the job has processed
  seqSession,   \* comment fragments added to the database session
  seqStored,    \* comment fragments the database holds
  kvStore,      \* job records of a process whose cache.redis_client is set
  kvIndex,      \* ingest_job:index of the shared store, by ascending score
  memStore,     \* _local_store of a process without a redis client
  memIndex,     \* _local_index of that process
  opsDone,      \* job-status calls made so far: the time _now_iso reads
  listed,       \* the last list_jobs call and what either process returned
  subRoute,     \* the endpoint that serves the submission
  subSend,      \* how handing the job to the task queue ended
  anInstance,   \* the attributes of a SentimentTrajectoryAnalyzer instance
  anCalls,      \* the analyze_trajectory calls made on it: input and result
  tkSource,     \* the rows of a chunk handed to process_chunk
  tkRow,        \* rows of it processed so far
  tkTickets,    \* the tickets table, by ticket id
  tkFrags       \* the sentiment_results table, in insertion order

jobVars == <<redisUp, client, redisStore, redisIndex, localStore, localIndex,
             call, ret, clock, endpoint, wpc, stats, chunkNo, deliveries,
             incLog>>

ingestVars == <<kind, source, failAt, fileExists, pending, committed, written,
                fatal, firstRun>>

trajVars == <<trajComments, trajPreds, trajResult>>

aggVars == <<aggFrags, aggStrategy, aggResult>>

\* the state of the pure services, which no job-status or ingestion step touches
causalVars == <<causalTickets, causalMin, causalResult>>

parseVars == <<parseInput, parseResult>>

mapVars == <<mapTable, mapMapping, mapResult>>

cacheVars == <<mapCache, mapFirst, mapCalls>>

seqVars == <<seqSource, seqChunk, seqRow, seqSession, seqStored>>

opsVars == <<kvStore, kvIndex, memStore, memIndex, opsDone, listed>>

\* the state of the specifications that follow the pure services
submitVars == <<subRoute, subSend>>

analyzerVars == <<anInstance, anCalls>>

ticketVars == <<tkSource, tkRow, tkTickets, tkFrags>>

laterVars == <<analyzerVars, ticketVars>>

moreVars == <<opsVars, submitVars, laterVars>>

fnVars == <<trajVars, aggVars, causalVars, parseVars, mapVars, cacheVars, seqVars,
           moreVars>>

\* ------------------------------------------------------------- job records
\* A job record as the dict the code stores; a missing key is NoVal / "absent".
EmptyJob ==
  [exists |-> FALSE, status |-> "absent", started_at |-> NoVal,
   completed_at |-> NoVal, records_processed |-> NoVal,
   sentiment_records |-> NoVal, entity_records |-> NoVal,
   error |-> "absent", total_rows |-> NoVal, errors |-> NoVal]

\* keyword arguments that name no key
NoUpdates ==
  [status |-> KeepS, started_at |-> Keep, completed_at |-> Keep,
   records_processed |-> Keep, sentiment_records |-> Keep,
   entity_records |-> Keep, error |-> KeepS, total_rows |-> Keep,
   errors |-> Keep]

\* job.get(key, 0)
GetOr0(v) == IF v = NoVal THEN 0 ELSE v

\* a variant that builds the record from the updates alone
ApplyUpdatesFromEmpty(job, upd) ==
  [exists |-> TRUE,
   status |-> IF upd.status = KeepS THEN "absent" ELSE upd.status,
   started_at |-> IF upd.started_at = Keep THEN NoVal ELSE upd.started_at,
   completed_at |-> IF upd.completed_at = Keep THEN NoVal ELSE upd.completed_at,
   records_processed |-> IF upd.records_processed = Keep THEN NoVal ELSE upd.records_processed,
   sentiment_records |-> IF upd.sentiment_records = Keep THEN NoVal ELSE upd.sentiment_records,
   entity_records |-> IF upd.entity_records = Keep THEN NoVal ELSE upd.entity_records,
   error |-> IF upd.error = KeepS THEN "absent" ELSE upd.error,
   total_rows |-> IF upd.total_rows = Keep THEN NoVal ELSE upd.total_rows,
   errors |-> IF upd.errors = Keep THEN NoVal ELSE upd.errors]

\* _update_job, lines 52-56: job = _get_job(job_id) or {}; job[key] = value
ApplyUpdates(job, upd) ==
  [exists |-> TRUE,
   status |-> IF upd.status = KeepS THEN job.status ELSE upd.status,
   started_at |-> IF upd.started_at = Keep THEN job.started_at ELSE upd.started_at,
   completed_at |-> IF upd.completed_at = Keep THEN job.completed_at ELSE upd.completed_at,
   records_processed |-> IF upd.records_processed = Keep THEN job.records_processed ELSE upd.records_processed,
   sentiment_records |-> IF upd.sentiment_records = Keep THEN job.sentiment_records ELSE upd.sentiment_records,
   entity_records |-> IF upd.entity_records = Keep THEN job.entity_records ELSE upd.entity_records,
   error |-> IF upd.error = KeepS THEN job.error ELSE upd.error,
   total_rows |-> IF upd.total_rows = Keep THEN job.total_rows ELSE upd.total_rows,
   errors |-> IF upd.errors = Keep THEN job.errors ELSE upd.errors]

\* init_job, lines 62-76: the queued payload
InitPayload ==
  [exists |-> TRUE, status |-> "queued", started_at |-> NoVal,
   completed_at |-> NoVal, records_processed |-> 0, sentiment_records |-> 0,
   entity_records |-> 0, error |-> "absent", total_rows |-> NoVal,
   errors |-> NoVal]

\* mark_job_running, lines 82-85: updates.setdefault("started_at", now) looks
\* at the updates, not at the stored record
RunningUpdates(now) ==
  [NoUpdates EXCEPT !.status = "running", !.started_at = now]

\* mark_job_completed, lines 104-106
CompletedUpdates(now, meta) ==
  [meta EXCEPT !.status = "completed", !.completed_at = now]

\* mark_job_failed, lines 111-113
FailedUpdates(now, err, meta) ==
  [meta EXCEPT !.status = "failed", !.error = err, !.completed_at = now]

\* a variant that stores the increments instead of adding them
NewTotalsReplace(job, inc) ==
  [NoUpdates EXCEPT
     !.records_processed = inc[1],
     !.sentiment_records = inc[2],
     !.entity_records = inc[3]]

\* increment_job_progress, lines 91-95
NewTotals(job, inc) ==
  [NoUpdates EXCEPT
     !.records_processed = GetOr0(job.records_processed) + inc[1],
     !.sentiment_records = GetOr0(job.sentiment_records) + inc[2],
     !.entity_records = GetOr0(job.entity_records) + inc[3]]

\* ------------------------------------------------- job-status calls (Spec)
Idle ==
  [op |-> "idle", jid |-> "j1", pc |-> "idle", job |-> EmptyJob,
   inc |-> <<0, 0, 0>>, dirty |-> FALSE]

NoLog == [records_processed |-> NoVal, sentiment_records |-> NoVal,
          entity_records |-> NoVal]

Counters(job) ==
  [records_processed |-> job.records_processed,
   sentiment_records |-> job.sentiment_records,
   entity_records |-> job.entity_records]

\* what process_chunk reports for one chunk: (processed_rows,
\* sentiment_records, entity_records); all zero when every row failed
IncSet == {<<0, 0, 0>>, <<1, 2, 1>>}

\* the stats dict of a task, ingest_job.py lines 155-164
NoStats == [processed_rows |-> 0, sentiment_records |-> 0, entity_records |-> 0,
            errors |-> 0]

\* the summary a task passes to mark_job_completed, ingest_job.py lines 237-244
StatsMeta(st) ==
  [NoUpdates EXCEPT !.records_processed = st.processed_rows,
                    !.sentiment_records = st.sentiment_records,
                    !.entity_records = st.entity_records,
                    !.errors = st.errors]

\* the summary a task passes to mark_job_failed, ingest_job.py lines 254-261
FailMeta(st) == [StatsMeta(st) EXCEPT !.errors = Keep]

\* _now_iso, lines 20-21
NowIso == clock

\* _get_job, lines 39-48: the record the process sees, None when missing
GetJobRec(p, j) == IF client[p] THEN redisStore[j] ELSE localStore[p][j]

\* a command sent to a store that no longer answers raises ConnectionError
StoreDown(p) == client[p] /\ ~redisUp

\* where the task goes on when the job-status call it made returns:
\* process_csv_upload, ingest_job.py lines 166-270
NextOk(pc) ==
  CASE pc = "mark_running" -> "count_rows"
    [] pc = "count_rows" -> "chunks"
    [] pc = "progress" -> "chunks"
    [] pc = "complete" -> "ended"
    [] pc = "fail" -> "ended"
    [] OTHER -> pc

\* ... and when it raises: mark_job_running is outside the try (line 166),
\* update_job_metadata inside the inner try (lines 183-189), the chunk inside
\* the per-chunk try (lines 199-218), mark_job_completed inside the outer try
\* (line 248), mark_job_failed inside the handler (line 254)
NextRaise(pc) ==
  CASE pc = "mark_running" -> "ended"
    [] pc = "count_rows" -> "chunks"
    [] pc = "progress" -> "chunks"
    [] pc = "complete" -> "fail"
    [] pc = "fail" -> "ended"
    [] OTHER -> pc

\* lines 215-218: a chunk whose progress call raised is an entry of errors
StatsAfter(pc, outcome) ==
  IF pc = "progress" /\ outcome = "raised"
  THEN [stats EXCEPT !.errors = @ + 1] ELSE stats

Continue(p, outcome) ==
  IF p = "worker"
  THEN wpc' = (IF outcome = "ok" THEN NextOk(wpc) ELSE NextRaise(wpc))
       /\ stats' = StatsAfter(wpc, outcome)
  ELSE UNCHANGED <<wpc, stats>>

Raises(p) ==
  /\ call' = [call EXCEPT ![p] = Idle]
  /\ ret' = [ret EXCEPT ![p] = "raised"]
  /\ Continue(p, "raised")
  /\ UNCHANGED <<redisStore, redisIndex, localStore, localIndex, incLog>>

\* what a write of process p does to the unfinished calls of the others
OthersDirty(p, j) ==
  [q \in Procs |->
     IF q # p /\ client[p] /\ client[q] /\ call[q].op # "idle" /\ call[q].jid = j
     THEN [call[q] EXCEPT !.dirty = TRUE] ELSE call[q]]

\* the sequence of increment calls of q is broken by any other write it sees
LogAfterWrite(p, opname, data) ==
  [q \in Procs |->
     IF q = p
     THEN IF opname = "increment_job_progress" THEN Counters(data) ELSE NoLog
     ELSE IF client[p] /\ client[q] THEN NoLog ELSE incLog[q]]

\* _save_job, lines 28-36: setex + zadd, or the process-local dict and list
SaveJobRec(p, j, data, opname) ==
  /\ IF client[p]
     THEN /\ redisStore' = [redisStore EXCEPT ![j] = data]
          /\ redisIndex' = [redisIndex EXCEPT ![j] = TRUE]
          /\ UNCHANGED <<localStore, localIndex>>
     ELSE /\ localStore' = [localStore EXCEPT ![p][j] = data]
          /\ localIndex' = [localIndex EXCEPT ![p] =
                IF \E i \in 1..Len(@) : @[i] = j THEN @ ELSE Append(@, j)]
          /\ UNCHANGED <<redisStore, redisIndex>>
  /\ call' = [OthersDirty(p, j) EXCEPT ![p] = Idle]
  /\ ret' = [ret EXCEPT ![p] = "ok"]
  /\ incLog' = LogAfterWrite(p, opname, data)
  /\ Continue(p, "ok")

\* _update_job, lines 52-56, entered from one of the mark_/update_ functions:
\* read the record, apply the updates; the write is the step SaveJob
BeginUpdate(p, j, opname, upd) ==
  /\ call[p].op = "idle"
  /\ IF StoreDown(p)
     THEN Raises(p)
     ELSE /\ call' = [call EXCEPT ![p] =
                [op |-> opname, jid |-> j, pc |-> "write",
                 job |-> ApplyUpdates(GetJobRec(p, j), upd),
                 inc |-> <<0, 0, 0>>, dirty |-> FALSE]]
          /\ UNCHANGED <<redisStore, redisIndex, localStore, localIndex, ret,
                         incLog, wpc, stats>>
  /\ UNCHANGED <<redisUp, client, clock, chunkNo, deliveries>>

\* init_job, lines 61-78, called by an ingestion endpoint with a fresh uuid4
\* job id (api/ingest_csv.py, lines 192-204): once per job id
InitJob(p, j) ==
  /\ call[p].op = "idle"
  /\ endpoint = "new"
  /\ IF StoreDown(p)
     THEN Raises(p) /\ endpoint' = "returned"
     ELSE SaveJobRec(p, j, InitPayload, "init_job") /\ endpoint' = "submitted"
  /\ UNCHANGED <<redisUp, client, clock, chunkNo, deliveries>>

\* the task queue hands the job to the worker: at least once, and again after
\* a run has ended (celery_app.send_task, api/ingest_csv.py lines 208-211)
Deliver ==
  /\ endpoint # "new"
  /\ wpc \in {"idle", "ended"}
  /\ deliveries < MaxDeliveries
  /\ deliveries' = deliveries + 1
  /\ wpc' = "mark_running"
  /\ stats' = NoStats
  /\ chunkNo' = 0
  /\ UNCHANGED <<redisUp, client, redisStore, redisIndex, localStore, localIndex,
                 call, ret, clock, endpoint, incLog>>

\* mark_job_running, lines 81-86, called at ingest_job.py line 166
MarkJobRunning(p, j) ==
  /\ wpc = "mark_running"
  /\ BeginUpdate(p, j, "mark_job_running", RunningUpdates(NowIso))
  /\ UNCHANGED endpoint

\* update_job_metadata, lines 99-100, called at ingest_job.py line 186
UpdateJobMetadata(p, j) ==
  /\ wpc = "count_rows"
  /\ BeginUpdate(p, j, "update_job_metadata", [NoUpdates EXCEPT !.total_rows = 1])
  /\ UNCHANGED endpoint

\* ingest_job.py lines 195-206: the next chunk has been processed and its
\* counts are added to stats; the task is about to report progress
TakeChunk ==
  /\ wpc = "chunks"
  /\ call["worker"].op = "idle"
  /\ chunkNo < MaxChunks
  /\ \E inc \in IncSet :
       /\ stats' = [stats EXCEPT !.processed_rows = @ + inc[1],
                                 !.sentiment_records = @ + inc[2],
                                 !.entity_records = @ + inc[3]]
       /\ call' = [call EXCEPT !["worker"].inc = inc]
  /\ chunkNo' = chunkNo + 1
  /\ wpc' = "progress"
  /\ UNCHANGED <<redisUp, client, redisStore, redisIndex, localStore, localIndex,
                 ret, clock, endpoint, deliveries, incLog>>

\* the source is exhausted: ingest_job.py lines 220-236
EndOfSource ==
  /\ wpc = "chunks"
  /\ call["worker"].op = "idle"
  /\ wpc' = "complete"
  /\ UNCHANGED <<redisUp, client, redisStore, redisIndex, localStore, localIndex,
                 call, ret, clock, endpoint, stats, chunkNo, deliveries, incLog>>

\* a job-scope failure (missing file, unreadable chunk) reaches the outer
\* handler: ingest_job.py lines 171-172, 191, 248-252
JobScopeFailure ==
  /\ wpc \in {"count_rows", "chunks"}
  /\ call["worker"].op = "idle"
  /\ wpc' = "fail"
  /\ UNCHANGED <<redisUp, client, redisStore, redisIndex, localStore, localIndex,
                 call, ret, clock, endpoint, stats, chunkNo, deliveries, incLog>>

\* mark_job_completed, lines 103-107, called at ingest_job.py lines 237-244
MarkJobCompleted(p, j) ==
  /\ wpc = "complete"
  /\ BeginUpdate(p, j, "mark_job_completed", CompletedUpdates(NowIso, StatsMeta(stats)))
  /\ UNCHANGED endpoint

\* mark_job_failed, lines 110-114: by the task (ingest_job.py lines 254-261)
\* or by the endpoint whose send_task raised (api/ingest_csv.py lines 227-230)
MarkJobFailed(p, j) ==
  /\ IF p = "api"
     THEN /\ endpoint = "submitted"
          /\ endpoint' = "returned"
          /\ BeginUpdate(p, j, "mark_job_failed", FailedUpdates(NowIso, "e1", NoUpdates))
     ELSE /\ wpc = "fail"
          /\ UNCHANGED endpoint
          /\ BeginUpdate(p, j, "mark_job_failed", FailedUpdates(NowIso, "e1", FailMeta(stats)))

\* increment_job_progress, line 90: the first read, from which lines 91-95
\* compute the new totals
IncrementRead(p, j) ==
  /\ wpc = "progress"
  /\ call[p].op = "idle"
  /\ \A i \in 1..3 : call[p].inc[i] >= 0
  /\ IF StoreDown(p)
     THEN Raises(p)
     ELSE /\ call' = [call EXCEPT ![p] =
                [op |-> "increment_job_progress", jid |-> j, pc |-> "update",
                 job |-> GetJobRec(p, j), inc |-> call[p].inc, dirty |-> FALSE]]
          /\ UNCHANGED <<redisStore, redisIndex, localStore, localIndex, ret,
                         incLog, wpc, stats>>
  /\ UNCHANGED <<redisUp, client, clock, endpoint, chunkNo, deliveries>>

\* increment_job_progress, line 96: _update_job reads the record again and
\* applies the totals computed from the first read
IncrementUpdate(p) ==
  /\ call[p].op = "increment_job_progress"
  /\ call[p].pc = "update"
  /\ IF StoreDown(p)
     THEN Raises(p)
     ELSE /\ call' = [call EXCEPT ![p].pc = "write",
                        ![p].job = ApplyUpdates(GetJobRec(p, call[p].jid),
                                                NewTotals(call[p].job, call[p].inc))]
          /\ UNCHANGED <<redisStore, redisIndex, localStore, localIndex, ret,
                         incLog, wpc, stats>>
  /\ UNCHANGED <<redisUp, client, clock, endpoint, chunkNo, deliveries>>

\* _update_job, lines 57-58: _save_job(job_id, job); return job
SaveJob(p) ==
  /\ call[p].pc = "write"
  /\ IF StoreDown(p)
     THEN Raises(p)
     ELSE SaveJobRec(p, call[p].jid, call[p].job, call[p].op)
  /\ UNCHANGED <<redisUp, client, clock, endpoint, chunkNo, deliveries>>

\* get_job, lines 117-118, called by the status endpoint
GetJob(p, j) ==
  /\ call[p].op = "idle"
  /\ ret' = [ret EXCEPT ![p] = IF StoreDown(p) THEN "raised" ELSE "ok"]
  /\ UNCHANGED <<redisUp, client, redisStore, redisIndex, localStore, localIndex,
                 call, clock, endpoint, wpc, stats, chunkNo, deliveries, incLog>>

\* time passes between two readings of the clock
Tick ==
  /\ clock < MaxClock
  /\ clock' = clock + 1
  /\ UNCHANGED <<redisUp, client, redisStore, redisIndex, localStore, localIndex,
                 call, ret, endpoint, wpc, stats, chunkNo, deliveries, incLog>>

\* the shared store becomes unreachable (one outage, which lasts); a process
\* keeps the client it built when it started (CacheManager.__init__)
RedisDown ==
  /\ redisUp
  /\ redisUp' = FALSE
  /\ UNCHANGED <<client, redisStore, redisIndex, localStore, localIndex,
                 call, ret, clock, endpoint, wpc, stats, chunkNo, deliveries, incLog>>

\* CacheManager._connect, lines 21-33: the client is kept only when the ping
\* at start-up succeeds
Connect(up) == up

JobsInit ==
  /\ redisUp \in BOOLEAN
  /\ \E up \in [Procs -> BOOLEAN] :
       client = [p \in Procs |-> Connect(up[p])]
  /\ redisStore = [j \in JobIds |-> EmptyJob]
  /\ redisIndex = [j \in JobIds |-> FALSE]
  /\ localStore = [p \in Procs |-> [j \in JobIds |-> EmptyJob]]
  /\ localIndex = [p \in Procs |-> <<>>]
  /\ call = [p \in Procs |-> Idle]
  /\ ret = [p \in Procs |-> "ok"]
  /\ clock = 0
  /\ endpoint = "new"
  /\ wpc = "idle"
  /\ stats = NoStats
  /\ chunkNo = 0
  /\ deliveries = 0
  /\ incLog = [p \in Procs |-> NoLog]

\* ------------------------------------------- ingestion tasks (SpecIngest)
Kinds == {"csv_upload", "csv_content", "parquet_job", "parquet_pipeline"}

\* ... and process_parquet_content_task, ingest_job.py lines 813-856, which
\* cuts a frame of more than 1000 rows into batches of 100 (line 827)
TaskKinds == Kinds \cup {"parquet_content"}

\* rows of a payload: the ticket, whether processing the row raises, and what
\* the classification service answers for its text ("fail": no answer)
Rows ==
  {[ticket_id |-> "T1", bad |-> FALSE, resp |-> "positive"],
   [ticket_id |-> "T2", bad |-> FALSE, resp |-> "fail"],
   [ticket_id |-> "T3", bad |-> TRUE, resp |-> "positive"],
   [ticket_id |-> "T1", bad |-> FALSE, resp |-> "negative"]}

ChunkSet == UNION {[1..n -> Rows] : n \in 1..MaxRows}
SourceSet == UNION {[1..n -> ChunkSet] : n \in 1..MaxChunks}

\* confidences are in tenths: 3 is 0.3
Fallback == [sentiment |-> "neutral", confidence |-> 3]

\* NLPClient.get_sentiment, nlp_client.py lines 27-43: every failure of the
\* request is caught there and answered with neutral / 0.5
GetSentiment(resp) ==
  IF resp = "fail"
  THEN [raised |-> FALSE, sentiment |-> "neutral", confidence |-> 5]
  ELSE [raised |-> FALSE, sentiment |-> resp, confidence |-> 9]

\* process_chunk, ingest_job.py lines 573-577, and _analyze_text,
\* parquet_ingest_job.py lines 251-256: the fallback when get_sentiment raises
AnalyzeText(resp) ==
  LET r == GetSentiment(resp)
  IN IF r.raised THEN Fallback
     ELSE [sentiment |-> r.sentiment, confidence |-> r.confidence]

\* NLPClient.get_entities, nlp_client.py lines 45-58: [] when the request fails
EntityCount(resp) == IF resp = "fail" THEN 0 ELSE 1

\* the sentiment record of a row, ingest_job.py lines 579-585
Fragment(row) ==
  [ticket_id |-> row.ticket_id, field_type |-> "summary",
   sentiment |-> AnalyzeText(row.resp).sentiment,
   confidence |-> AnalyzeText(row.resp).confidence,
   cls_failed |-> row.resp = "fail"]

\* a variant in which the first row that raises ends the chunk
RowDoneAbort(chunk, i) == \A k \in 1..i : ~chunk[k].bad

\* process_chunk, ingest_job.py lines 519-743: a row that raises is logged and
\* skipped (continue); the rows after it are processed
RowDone(chunk, i) == ~chunk[i].bad

RECURSIVE ChunkFragsFrom(_, _)
ChunkFragsFrom(chunk, i) ==
  IF i > Len(chunk) THEN <<>>
  ELSE (IF RowDone(chunk, i) THEN <<Fragment(chunk[i])>> ELSE <<>>)
       \o ChunkFragsFrom(chunk, i + 1)

ChunkFrags(chunk) == ChunkFragsFrom(chunk, 1)

DoneRows(chunk) == {i \in 1..Len(chunk) : RowDone(chunk, i)}

\* the stats process_chunk returns, ingest_job.py lines 496-501, 737-749;
\* _process_batch (parquet_ingest_job.py lines 240-249) keeps no error list
ChunkReport(k, chunk) ==
  [processed_rows |-> Cardinality(DoneRows(chunk)),
   sentiment_records |-> Len(ChunkFrags(chunk)),
   entity_records |-> Cardinality({i \in DoneRows(chunk) : EntityCount(chunk[i].resp) = 1}),
   errors |-> IF k = "parquet_pipeline" THEN 0
              ELSE Len(chunk) - Cardinality(DoneRows(chunk))]

AddReport(st, r) ==
  [processed_rows |-> st.processed_rows + r.processed_rows,
   sentiment_records |-> st.sentiment_records + r.sentiment_records,
   entity_records |-> st.entity_records + r.entity_records,
   errors |-> st.errors + r.errors]

\* tasks that read a file check that it exists: ingest_job.py lines 171-172
\* and 881-882
ReadsFile(k) == k \in {"csv_upload", "parquet_job"}

\* tasks that parse the whole payload before the first batch:
\* parquet_ingest_job.py line 57 (pd.read_csv), ingest_job.py line 822
\* (pd.read_parquet)
ReadsWhole(k) == k \in {"parquet_pipeline", "parquet_content"}

\* update_job_metadata(job_id, total_rows=...), ingest_job.py lines 66, 186,
\* 889, parquet_ingest_job.py line 59; process_parquet_content_task has none
TotalRowsMeta(k) ==
  IF k = "parquet_content" THEN NoUpdates
  ELSE [NoUpdates EXCEPT !.total_rows = 1]

\* the summary passed to mark_job_failed: the totals of stats (ingest_job.py
\* lines 129-136, 254-261, 941-948, parquet_ingest_job.py lines 120-127), or
\* nothing (ingest_job.py line 855)
TaskFailMeta(k, st) == IF k = "parquet_content" THEN NoUpdates ELSE FailMeta(st)

\* the summary passed to mark_job_completed: the totals of stats with the
\* error list (ingest_job.py lines 112-119, 237-244, 928-935,
\* parquet_ingest_job.py lines 103-110), or the counts of the last batch
\* (chunk_stats, ingest_job.py lines 844-850)
CompletedMeta(k, st, src) ==
  IF k = "parquet_content"
  THEN [StatsMeta(ChunkReport(k, src[Len(src)])) EXCEPT !.errors = Keep]
  ELSE StatsMeta(st)

TheJob == redisStore["j1"]

\* the queue delivers the job: the first time, or once more after a run ended
TaskDeliver ==
  /\ wpc \in {"idle", "ended"}
  /\ deliveries < MaxDeliveries
  /\ deliveries' = deliveries + 1
  /\ wpc' = "mark_running"
  /\ stats' = NoStats
  /\ chunkNo' = 0
  /\ written' = <<>>
  /\ fatal' = FALSE
  /\ firstRun' = IF deliveries = 1 THEN TheJob ELSE firstRun
  /\ UNCHANGED <<redisUp, client, redisStore, redisIndex, localStore, localIndex,
                 call, ret, clock, endpoint, incLog, kind, source, failAt,
                 fileExists, pending, committed>>

\* process_csv_upload, ingest_job.py lines 166-192 (process_csv_content lines
\* 50-74, process_parquet_job lines 875-893, ParquetIngestPipeline lines
\* 51-59): mark the job running, find the source, record total_rows; a
\* source that cannot be opened is a job-scope failure (lines 248-270)
TaskStart ==
  /\ wpc = "mark_running"
  /\ LET running == ApplyUpdates(TheJob, RunningUpdates(NowIso))
         missing == (ReadsFile(kind) /\ ~fileExists)
                    \/ (ReadsWhole(kind) /\ failAt > 0)
         msg == IF ReadsFile(kind) /\ ~fileExists THEN "not_found" ELSE "unreadable"
     IN IF missing
        THEN /\ redisStore' = [redisStore EXCEPT !["j1"] =
                    ApplyUpdates(running,
                      FailedUpdates(NowIso, msg,
                        TaskFailMeta(kind, stats)))]
             /\ fatal' = TRUE
             /\ wpc' = "ended"
        ELSE /\ redisStore' = [redisStore EXCEPT !["j1"] =
                    ApplyUpdates(running, TotalRowsMeta(kind))]
             /\ fatal' = FALSE
             /\ wpc' = "chunks"
  /\ UNCHANGED <<redisUp, client, redisIndex, localStore, localIndex, call, ret,
                 clock, endpoint, incLog, stats, chunkNo, deliveries, kind,
                 source, failAt, fileExists, pending, committed, written,
                 firstRun>>

\* one turn of the chunk loop, ingest_job.py lines 194-218: process_chunk,
\* add its counts to stats, increment_job_progress.  When reading the chunk
\* raises, the exception leaves the with block of get_db_context
\* (database.py lines 43-57: rollback), and the handler of lines 248-270
\* marks the job failed and removes the uploaded file
TaskChunk ==
  /\ wpc = "chunks"
  /\ chunkNo < Len(source)
  /\ IF failAt = chunkNo + 1
     THEN /\ pending' = IF kind = "parquet_pipeline" THEN pending ELSE <<>>
          /\ redisStore' = [redisStore EXCEPT !["j1"] =
                 ApplyUpdates(TheJob, FailedUpdates(NowIso, "unreadable",
                                                     TaskFailMeta(kind, stats)))]
          /\ fileExists' = IF kind = "csv_upload" THEN FALSE ELSE fileExists
          /\ fatal' = TRUE
          /\ wpc' = "ended"
          /\ UNCHANGED <<stats, chunkNo, written>>
     ELSE LET chunk == source[chunkNo + 1]
              report == ChunkReport(kind, chunk)
          IN /\ pending' = pending \o ChunkFrags(chunk)
             /\ written' = written \o ChunkFrags(chunk)
             /\ stats' = AddReport(stats, report)
             /\ redisStore' = [redisStore EXCEPT !["j1"] =
                    ApplyUpdates(TheJob,
                      NewTotals(TheJob, <<report.processed_rows,
                                          report.sentiment_records,
                                          report.entity_records>>))]
             /\ chunkNo' = chunkNo + 1
             /\ UNCHANGED <<fileExists, fatal, wpc>>
  /\ UNCHANGED <<redisUp, client, redisIndex, localStore, localIndex, call, ret,
                 clock, endpoint, incLog, deliveries, kind, source, failAt,
                 committed, firstRun>>

\* the source is exhausted, ingest_job.py lines 220-246: the with block
\* commits (database.py line 51; _write_to_postgres for the pipeline,
\* parquet_ingest_job.py lines 86-92), the uploaded file is removed, the job
\* is marked completed with the totals of stats
TaskFinish ==
  /\ wpc = "chunks"
  /\ chunkNo = Len(source)
  /\ committed' = committed \o pending
  /\ pending' = <<>>
  /\ fileExists' = IF kind = "csv_upload" THEN FALSE ELSE fileExists
  /\ redisStore' = [redisStore EXCEPT !["j1"] =
         ApplyUpdates(TheJob, CompletedUpdates(NowIso,
                                CompletedMeta(kind, stats, source)))]
  /\ wpc' = "ended"
  /\ UNCHANGED <<redisUp, client, redisIndex, localStore, localIndex, call, ret,
                 clock, endpoint, incLog, stats, chunkNo, deliveries, kind,
                 source, failAt, written, fatal, firstRun>>

\* time passes while a task runs
TaskTick ==
  /\ clock < MaxClock
  /\ clock' = clock + 1
  /\ UNCHANGED <<redisUp, client, redisStore, redisIndex, localStore, localIndex,
                 call, ret, endpoint, wpc, stats, chunkNo, deliveries, incLog,
                 ingestVars>>

\* no ingestion task is modelled in Spec
IngestIdle ==
  /\ kind = "csv_upload"
  /\ source = <<>>
  /\ failAt = 0
  /\ fileExists = TRUE
  /\ pending = <<>>
  /\ committed = <<>>
  /\ written = <<>>
  /\ fatal = FALSE
  /\ firstRun = EmptyJob

\* the job has been created by its endpoint (init_job) and the store answers
IngestInitOf(kinds) ==
  /\ redisUp = TRUE
  /\ client = [p \in Procs |-> Connect(TRUE)]
  /\ redisStore = [j \in JobIds |-> InitPayload]
  /\ redisIndex = [j \in JobIds |-> TRUE]
  /\ localStore = [p \in Procs |-> [j \in JobIds |-> EmptyJob]]
  /\ localIndex = [p \in Procs |-> <<>>]
  /\ call = [p \in Procs |-> Idle]
  /\ ret = [p \in Procs |-> "ok"]
  /\ clock = 0
  /\ endpoint = "submitted"
  /\ wpc = "idle"
  /\ stats = NoStats
  /\ chunkNo = 0
  /\ deliveries = 0
  /\ incLog = [p \in Procs |-> NoLog]
  /\ kind \in kinds
  /\ source \in SourceSet
  /\ failAt \in 0..Len(source)
  /\ fileExists = TRUE
  /\ pending = <<>>
  /\ committed = <<>>
  /\ written = <<>>
  /\ fatal = FALSE
  /\ firstRun = EmptyJob

IngestInit == IngestInitOf(Kinds)

TasksInit == IngestInitOf(TaskKinds)

\* --------------------------------------------- trajectory analyzer (SpecTraj)
\* a comment text, by the cues calculate_intensity counts in it
CommentSet ==
  {[intensifiers |-> 0, diminishers |-> 0, exclamations |-> 0, caps |-> 0],
   [intensifiers |-> 1, diminishers |-> 0, exclamations |-> 2, caps |-> 1]}

\* a prediction: label and confidence (in tenths)
PredSet == [label : {"positive", "negative", "neutral"}, confidence : {5, 9}]

SeqsUpTo(S, n) == UNION {[1..k -> S] : k \in 0..n}

Min(a, b) == IF a < b THEN a ELSE b
Max(a, b) == IF a > b THEN a ELSE b

\* lines 113 and 127: the words counted as all-caps are taken from
\* text.lower().split(), and no lower-cased word isupper()
CapsWords(c) == 0

\* calculate_intensity, lines 102-132, in hundredths
CalculateIntensity(c) ==
  Max(0, Min(100, 50 + 15 * c.intensifiers - 10 * c.diminishers
                     + Min(5 * c.exclamations, 20) + Min(5 * CapsWords(c), 15)))

\* analyze_trajectory, lines 195-206: zip(comments, sentiment_predictions)
\* stops at the end of the shorter list
SentimentHistory(comments, preds) ==
  [i \in 1..Min(Len(comments), Len(preds)) |->
     [label |-> preds[i].label, confidence |-> preds[i].confidence,
      intensity |-> CalculateIntensity(comments[i])]]

\* _find_turning_points, lines 280-296
TurningPoints(h) ==
  {i \in 2..Len(h) : h[i - 1].label # h[i].label /\ h[i].confidence > 7}

\* the signed value of a SentimentScore, in hundredths (lines 249-256, 308-314)
SignedValue(score) ==
  CASE score.label = "positive" -> score.intensity
    [] score.label = "negative" -> -score.intensity
    [] OTHER -> 0

SignedValues(h) == [i \in 1..Len(h) |-> SignedValue(h[i])]

\* np.diff
Diff(v) == [i \in 1..(Len(v) - 1) |-> v[i + 1] - v[i]]

Abs(x) == IF x < 0 THEN -x ELSE x

RECURSIVE SumSeq(_)
SumSeq(v) == IF Len(v) = 0 THEN 0 ELSE Head(v) + SumSeq(Tail(v))

\* lines 262-265 with np.mean(np.abs(changes)) > 0.7 in place of np.std
VolatileByMeanAbs(changes) ==
  SumSeq([i \in 1..Len(changes) |-> Abs(changes[i])]) > 70 * Len(changes)

\* lines 262-265: np.std(changes) > 0.7, the population standard deviation,
\* compared on the variance: mean(d^2) - mean(d)^2 > 0.49
VolatileByStd(changes) ==
  LET n == Len(changes)
      sq == SumSeq([i \in 1..n |-> changes[i] * changes[i]])
      sm == SumSeq(changes)
  IN  n * sq - sm * sm > 4900 * n * n

\* _identify_trajectory_pattern, lines 234-278.  The first third is
\* values[:N//3], empty for N = 2: np.mean of it is nan and every comparison
\* with it is false.  The last third is values[-N//3:], the last ceil(N/3).
IdentifyTrajectoryPattern(h) ==
  IF Len(h) < 2
  THEN CASE h[1].label = "positive" -> "CONSISTENTLY_POSITIVE"
         [] h[1].label = "negative" -> "CONSISTENTLY_NEGATIVE"
         [] OTHER -> "NEUTRAL_STABLE"
  ELSE LET v == SignedValues(h)
           n == Len(v)
           n1 == n \div 3
           n3 == (n + 2) \div 3
           s1 == SumSeq(SubSeq(v, 1, n1))
           s3 == SumSeq(SubSeq(v, n - n3 + 1, n))
           initialLow == n1 > 0 /\ s1 < -(30 * n1)
           initialHigh == n1 > 0 /\ s1 > 30 * n1
           finalHigh == s3 > 30 * n3
           finalLow == s3 < -(30 * n3)
       IN  IF VolatileByStd(Diff(v)) THEN "VOLATILE"
           ELSE IF initialLow /\ finalHigh THEN "IMPROVING"
           ELSE IF initialHigh /\ finalLow THEN "DETERIORATING"
           ELSE IF finalHigh THEN "CONSISTENTLY_POSITIVE"
           ELSE IF finalLow THEN "CONSISTENTLY_NEGATIVE"
           ELSE "NEUTRAL_STABLE"

\* _calculate_volatility, lines 298-320, in ten-thousandths (truncated)
CalculateVolatility(h) ==
  IF Len(h) < 2 THEN 0
  ELSE LET changes == Diff(SignedValues(h))
           total == SumSeq([i \in 1..Len(changes) |-> Abs(changes[i])])
       IN  Max(0, Min(10000, (100 * total) \div Len(changes)))

\* _calculate_improvement_score, lines 322-341, in hundredths
CalculateImprovementScore(initial, final) ==
  Max(-100, Min(100, SignedValue(final) - SignedValue(initial)))

NoResult == [raised |-> FALSE, returned |-> FALSE, history |-> <<>>,
             turning_points |-> {}, trajectory_type |-> "none",
             volatility_score |-> 0, improvement_score |-> 0]

\* analyze_trajectory, lines 175-232
AnalyzeTrajectoryResult(comments, preds) ==
  IF Len(comments) = 0 \/ Len(preds) = 0
  THEN [NoResult EXCEPT !.raised = TRUE]
  ELSE LET h == SentimentHistory(comments, preds)
       IN  [raised |-> FALSE, returned |-> TRUE,
            history |-> h,
            turning_points |-> TurningPoints(h),
            trajectory_type |-> IdentifyTrajectoryPattern(h),
            volatility_score |-> CalculateVolatility(h),
            improvement_score |-> CalculateImprovementScore(h[1], h[Len(h)])]

\* a caller invokes analyze_trajectory on the inputs it holds
AnalyzeTrajectory ==
  /\ trajResult = NoResult
  /\ trajResult' = AnalyzeTrajectoryResult(trajComments, trajPreds)
  /\ UNCHANGED <<jobVars, ingestVars, moreVars, trajComments, trajPreds>>

\* the texts and predictions of a five-comment ticket (the demo's shape)
ScenarioLen == 5
ScenarioComments ==
  {[intensifiers |-> 0, diminishers |-> 0, exclamations |-> 0, caps |-> 0],
   [intensifiers |-> 4, diminishers |-> 0, exclamations |-> 0, caps |-> 0]}
ScenarioPreds == [label : {"positive", "negative", "neutral"}, confidence : {9}]

ScenarioInit ==
  /\ trajComments \in [1..ScenarioLen -> ScenarioComments]
  /\ trajPreds \in [1..ScenarioLen -> ScenarioPreds]
  /\ trajResult = NoResult

TrajInit ==
  /\ trajComments \in SeqsUpTo(CommentSet, MaxLen)
  /\ trajPreds \in SeqsUpTo(PredSet, MaxLen)
  /\ trajResult = NoResult

\* no job is tracked in SpecTraj
JobsIdle ==
  /\ redisUp = TRUE
  /\ client = [p \in Procs |-> Connect(TRUE)]
  /\ redisStore = [j \in JobIds |-> EmptyJob]
  /\ redisIndex = [j \in JobIds |-> FALSE]
  /\ localStore = [p \in Procs |-> [j \in JobIds |-> EmptyJob]]
  /\ localIndex = [p \in Procs |-> <<>>]
  /\ call = [p \in Procs |-> Idle]
  /\ ret = [p \in Procs |-> "ok"]
  /\ clock = 0
  /\ endpoint = "new"
  /\ wpc = "idle"
  /\ stats = NoStats
  /\ chunkNo = 0
  /\ deliveries = 0
  /\ incLog = [p \in Procs |-> NoLog]

TrajIdle ==
  /\ trajComments = <<>>
  /\ trajPreds = <<>>
  /\ trajResult = NoResult


\* ------------------------------------------- sentiment aggregator (SpecAgg)
\* Confidences are in hundredths, returned confidences in thousandths.  The
\* confidences drawn keep every sum the code compares off its threshold, where
\* the floating-point comparison would turn on the rounding of the sum.
Labels == {"positive", "negative", "neutral"}
Strategies == {"latest", "weighted_recent", "trajectory"}
FragSet == [sentiment : Labels, confidence : {13, 87}]

\* SENTIMENT_SCORES, lines 14-18
SentimentScores(label) ==
  CASE label = "positive" -> 1
    [] label = "negative" -> -1
    [] OTHER -> 0

\* round(x, 3) of the quotient n / d of two naturals, in thousandths of the
\* unit n / d is in (ties to the even neighbour)
RoundDiv(n, d) ==
  LET q == n \div d
      r == n % d
  IN  IF 2 * r < d THEN q
      ELSE IF 2 * r > d THEN q + 1
      ELSE IF q % 2 = 0 THEN q ELSE q + 1

\* sum of f[i] for i in lo..hi
RECURSIVE SumRange(_, _, _)
SumRange(f, lo, hi) ==
  IF lo > hi THEN 0 ELSE f[lo] + SumRange(f, lo + 1, hi)

\* sentiments[lo-1:hi] as a sequence
Slice(s, lo, hi) == [i \in 1..(hi - lo + 1) |-> s[lo + i - 1]]

\* _calculate_trend, lines 131-160: halves compared on the bare scores
CalculateTrend(s) ==
  IF Len(s) < 2 THEN "stable"
  ELSE LET mid == Len(s) \div 2
           sc == [i \in 1..Len(s) |-> SentimentScores(s[i].sentiment)]
           n1 == mid
           n2 == Len(s) - mid
           s1 == SumRange(sc, 1, mid)
           s2 == SumRange(sc, mid + 1, Len(s))
       IN  IF 10 * s2 * n1 > 10 * s1 * n2 + 3 * n1 * n2 THEN "improving"
           ELSE IF 10 * s2 * n1 < 10 * s1 * n2 - 3 * n1 * n2 THEN "declining"
           ELSE "stable"

\* _calculate_latest, lines 46-54
CalculateLatest(s) ==
  [sentiment |-> s[Len(s)].sentiment,
   confidence |-> 10 * s[Len(s)].confidence,
   trend |-> CalculateTrend(s)]

\* line 60: sentiments[-5:] taken whole
RecentAll(s) == s

\* line 60: sentiments[-5:]
Recent(s) == IF Len(s) <= 5 THEN s ELSE Slice(s, Len(s) - 4, Len(s))

\* lines 66-67 with the number of fragments as the divisor
TotalWeightCount(k) == k

\* lines 66-67: sum(range(1, len(recent) + 1))
TotalWeight(k) == SumRange([i \in 1..k |-> i], 1, k)

\* lines 69-76: weighted_score, in hundredths
WeightedScore(recent) ==
  SumRange([i \in 1..Len(recent) |->
              SentimentScores(recent[i].sentiment) * i * recent[i].confidence],
           1, Len(recent))

\* lines 69-76: weighted_confidence, in hundredths
WeightedConfidence(recent) ==
  SumRange([i \in 1..Len(recent) |-> i * recent[i].confidence],
           1, Len(recent))

\* _calculate_weighted_recent, lines 57-91
CalculateWeightedRecent(s) ==
  LET recent == Recent(s)
      tw == TotalWeight(Len(recent))
      ws == WeightedScore(recent)
  IN  [sentiment |-> IF ws > 20 * tw THEN "positive"
                     ELSE IF ws < -(20 * tw) THEN "negative"
                     ELSE "neutral",
       confidence |-> RoundDiv(10 * WeightedConfidence(recent), tw),
       trend |-> CalculateTrend(s)]

\* _calculate_trajectory, lines 94-128: halves compared on score * confidence
CalculateTrajectory(s) ==
  IF Len(s) < 2
  THEN [sentiment |-> s[1].sentiment, confidence |-> 10 * s[1].confidence,
        trend |-> "stable"]
  ELSE LET mid == Len(s) \div 2
           sc == [i \in 1..Len(s) |->
                    SentimentScores(s[i].sentiment) * s[i].confidence]
           n1 == mid
           n2 == Len(s) - mid
           s1 == SumRange(sc, 1, mid)
           s2 == SumRange(sc, mid + 1, Len(s))
           conf == RoundDiv(10 * SumRange([i \in 1..Len(s) |-> s[i].confidence],
                                           1, Len(s)), Len(s))
       IN  IF s2 * n1 > s1 * n2 + 20 * n1 * n2
           THEN [sentiment |-> "positive", confidence |-> conf,
                 trend |-> "improving"]
           ELSE IF s2 * n1 < s1 * n2 - 20 * n1 * n2
           THEN [sentiment |-> "negative", confidence |-> conf,
                 trend |-> "declining"]
           ELSE [sentiment |-> s[Len(s)].sentiment, confidence |-> conf,
                 trend |-> "stable"]

\* calculate_ultimate, lines 21-43
CalculateUltimateResult(s, strategy) ==
  IF Len(s) = 0
  THEN [sentiment |-> "neutral", confidence |-> 500, trend |-> "stable"]
  ELSE CASE strategy = "latest" -> CalculateLatest(s)
         [] strategy = "weighted_recent" -> CalculateWeightedRecent(s)
         [] strategy = "trajectory" -> CalculateTrajectory(s)
         [] OTHER -> CalculateWeightedRecent(s)

NoAggResult == [sentiment |-> "none", confidence |-> 0, trend |-> "none"]

\* a caller asks for the ultimate sentiment of the fragments it holds
CalculateUltimate(strategy) ==
  /\ aggResult = NoAggResult
  /\ aggStrategy' = strategy
  /\ aggResult' = CalculateUltimateResult(aggFrags, strategy)
  /\ UNCHANGED <<jobVars, ingestVars, moreVars, trajVars, aggFrags, causalVars, parseVars,
                 mapVars, cacheVars, seqVars>>

AggInit ==
  /\ aggFrags \in SeqsUpTo(FragSet, MaxFrags)
  /\ aggStrategy = "none"
  /\ aggResult = NoAggResult

AggIdle ==
  /\ aggFrags = <<>>
  /\ aggStrategy = "none"
  /\ aggResult = NoAggResult


\* ----------------------------------------------- causal analyzer (SpecCausal)
\* issue_categories, lines 75-84
IssueCategories ==
  [performance |-> {"slow", "lag", "performance", "speed", "loading", "timeout"},
   bug |-> {"error", "bug", "crash", "broken", "not working", "issue", "problem"},
   usability |-> {"confusing", "difficult", "hard to use", "unclear", "unintuitive"},
   feature_request |-> {"feature", "would like", "add", "implement", "enhancement"},
   billing |-> {"charge", "billing", "payment", "refund", "invoice", "subscription"},
   security |-> {"security", "vulnerability", "breach", "hack", "unauthorized"},
   login |-> {"login", "password", "access", "authentication", "sign in"},
   data |-> {"data", "sync", "lost", "missing", "corrupted"}]

CategoryNames == DOMAIN IssueCategories \cup {"general"}

\* a description, by the keywords that occur in its lowercased text
DescriptionSet == SUBSET {"slow", "error"}

\* categorize_issue, lines 156-173
CategorizeIssue(text) ==
  LET categories == {c \in DOMAIN IssueCategories : IssueCategories[c] \cap text # {}}
  IN  IF categories # {} THEN categories ELSE {"general"}

\* lines 377-379: the tickets whose categories hold the category
CategoryTickets(tickets, category) ==
  {i \in 1..Len(tickets) : category \in CategorizeIssue(tickets[i])}

\* line 381 with <= in place of <
BelowSampleInclusive(count, minSampleSize) == count <= minSampleSize

\* line 381: len(category_tickets) < min_sample_size
BelowSample(count, minSampleSize) == count < minSampleSize

\* analyze_causal_factors, lines 352-401: the factors, by category and size
AnalyzeCausalFactorsResult(tickets, minSampleSize) ==
  LET allCategories == UNION {CategorizeIssue(tickets[i]) : i \in 1..Len(tickets)}
  IN  {[issue_category |-> c,
        sample_size |-> Cardinality(CategoryTickets(tickets, c))] :
         c \in {k \in allCategories :
                  ~BelowSample(Cardinality(CategoryTickets(tickets, k)),
                               minSampleSize)}}

NoCausalResult == [returned |-> FALSE, factors |-> {}]

AnalyzeCausalFactors ==
  /\ ~causalResult.returned
  /\ causalResult' =
       [returned |-> TRUE,
        factors |-> AnalyzeCausalFactorsResult(causalTickets, causalMin)]
  /\ UNCHANGED <<jobVars, ingestVars, moreVars, trajVars, aggVars, causalTickets, causalMin,
                 parseVars, mapVars, cacheVars, seqVars>>

CausalInit ==
  /\ causalTickets \in SeqsUpTo(DescriptionSet, MaxTickets)
  /\ causalMin \in 0..MaxSample
  /\ causalResult = NoCausalResult

CausalIdle ==
  /\ causalTickets = <<>>
  /\ causalMin = 0
  /\ causalResult = NoCausalResult


\* -------------------------------------------- comment parser (SpecParse)
\* A string is a sequence of tokens: "sp" a whitespace character, "w" any
\* other character that is not a semicolon, ";" a semicolon, "TS" a
\* timestamp that COMMENT_PATTERN accepts and strptime parses
\* (10/Oct/25 11:45 AM), "BADTS" one that COMMENT_PATTERN accepts and strptime
\* rejects (99/Xyz/25 13:45 AM).
Tokens == {"sp", "w", ";", "TS", "BADTS"}

\* the values that are not strings: None, and a truthy value such as a number
NoneValue == <<"None">>
NonString == <<"number">>

ParseInputs == SeqsUpTo(Tokens, MaxTokens) \cup {NoneValue, NonString}

RECURSIVE StripLeft(_)
StripLeft(str) ==
  IF Len(str) > 0 /\ Head(str) = "sp" THEN StripLeft(Tail(str)) ELSE str

RECURSIVE StripRight(_)
StripRight(str) ==
  IF Len(str) > 0 /\ str[Len(str)] = "sp"
  THEN StripRight(SubSeq(str, 1, Len(str) - 1)) ELSE str

\* str.strip()
Strip(str) == StripRight(StripLeft(str))

\* the position of the first semicolon at or after position i (0: none)
RECURSIVE FirstSemicolon(_, _)
FirstSemicolon(str, i) ==
  IF i > Len(str) THEN 0
  ELSE IF str[i] = ";" THEN i ELSE FirstSemicolon(str, i + 1)

\* COMMENT_PATTERN.match, lines 16-19 and 46: ^(timestamp);([^;]+);(.+)
PatternMatch(str) ==
  LET k == FirstSemicolon(str, 3)
  IN  IF /\ Len(str) >= 5
         /\ str[1] \in {"TS", "BADTS"}
         /\ str[2] = ";"
         /\ k >= 4
         /\ k < Len(str)
      THEN [matched |-> TRUE, timestamp |-> str[1],
            author |-> SubSeq(str, 3, k - 1),
            text |-> SubSeq(str, k + 1, Len(str))]
      ELSE [matched |-> FALSE, timestamp |-> "none", author |-> <<>>,
            text |-> <<>>]

\* _parse_timestamp without its try/except
ParseTimestampUncaught(ts) ==
  IF ts = "TS" THEN [raised |-> FALSE, value |-> "datetime"]
  ELSE [raised |-> TRUE, value |-> "null"]

\* _parse_timestamp, lines 71-83: strptime, any exception turned into None
ParseTimestamp(ts) ==
  IF ts = "TS" THEN [raised |-> FALSE, value |-> "datetime"]
  ELSE [raised |-> FALSE, value |-> "null"]

NullField == <<"null">>

\* CommentParser.parse, lines 21-69
ParseResult(comment_text) ==
  IF comment_text = NoneValue \/ comment_text = <<>>
  THEN [raised |-> FALSE, timestamp |-> "null", author_id |-> NullField,
        text |-> <<>>, is_parsed |-> FALSE]
  ELSE IF comment_text = NonString
  THEN [raised |-> FALSE, timestamp |-> "null", author_id |-> NullField,
        text |-> comment_text, is_parsed |-> FALSE]
  ELSE LET stripped == Strip(comment_text)
           m == PatternMatch(stripped)
           ts == ParseTimestamp(m.timestamp)
       IN  IF stripped = <<>>
           THEN [raised |-> FALSE, timestamp |-> "null",
                 author_id |-> NullField, text |-> <<>>, is_parsed |-> FALSE]
           ELSE IF m.matched
           THEN IF ts.raised
                THEN [raised |-> TRUE, timestamp |-> "null",
                      author_id |-> NullField, text |-> <<>>,
                      is_parsed |-> FALSE]
                ELSE [raised |-> FALSE, timestamp |-> ts.value,
                      author_id |-> Strip(m.author), text |-> Strip(m.text),
                      is_parsed |-> TRUE]
           ELSE [raised |-> FALSE, timestamp |-> "null",
                 author_id |-> NullField, text |-> stripped,
                 is_parsed |-> FALSE]

NoParseResult == [raised |-> FALSE, timestamp |-> "none", author_id |-> <<>>,
                  text |-> <<>>, is_parsed |-> FALSE]

Parse ==
  /\ parseResult = NoParseResult
  /\ parseResult' = ParseResult(parseInput)
  /\ UNCHANGED <<jobVars, ingestVars, moreVars, trajVars, aggVars, causalVars, parseInput,
                 mapVars, cacheVars, seqVars>>

ParseInit ==
  /\ parseInput \in ParseInputs
  /\ parseResult = NoParseResult

ParseIdle ==
  /\ parseInput = <<>>
  /\ parseResult = NoParseResult


\* ------------------------------------------------ column mapper (SpecMap)
\* the header names a table may carry
HeaderUniverse ==
  {"ticket_id", "Issue key", "Summary", "summary", "Comment", "Comment.1",
   "status", "Parent"}

\* str.lower() on the header names and on the candidates the code looks for
Lower ==
  ("ticket_id" :> "ticket_id") @@ ("Issue key" :> "issue key") @@
  ("Summary" :> "summary") @@ ("summary" :> "summary") @@
  ("Comment" :> "comment") @@ ("Comment.1" :> "comment.1") @@
  ("status" :> "status") @@ ("Parent" :> "parent") @@
  ("Issue id" :> "issue id") @@ ("Ticket ID" :> "ticket id") @@
  ("ID" :> "id") @@ ("Description" :> "description") @@
  ("Comments" :> "comments") @@ ("Issue summary" :> "issue summary") @@
  ("Parent summary" :> "parent summary")

\* lines 29-32: a keyword occurs in the lowercased name
HasTextKeyword(col) == Lower[col] \in {"summary", "comment", "comment.1"}

\* line 59: 'id' in col_lower
ContainsId(col) == Lower[col] \in {"ticket_id"}

\* line 61: a date word occurs in the lowercased name
HasDateWord(col) == FALSE

\* line 91: col.lower().startswith("comment")
StartsWithComment(col) == Lower[col] \in {"comment", "comment.1"}

\* lines 94-97: the number after the last dot, 0 without one
SuffixNumber(col) == IF col = "Comment.1" THEN 1 ELSE 0
MaxSuffix == 1

InSeq(x, seq) == \E i \in 1..Len(seq) : seq[i] = x

\* the sequences over S of length at most n that hold no element twice
DistinctSeqs(S, n) ==
  {q \in SeqsUpTo(S, n) : \A i, j \in 1..Len(q) : i # j => q[i] # q[j]}

\* detect_text_columns on a frame without rows, lines 23-41: the sampling
\* branch finds no value, so the keyword decides
DetectTextColumns(headers) == SelectSeq(headers, HasTextKeyword)

\* line 46: normalized_headers, the last header of each lowercased name
HasNormalized(headers, low) == \E i \in 1..Len(headers) : Lower[headers[i]] = low
Normalized(headers, low) ==
  headers[CHOOSE i \in 1..Len(headers) :
            /\ Lower[headers[i]] = low
            /\ \A j \in (i + 1)..Len(headers) : Lower[headers[j]] # low]

NoColumn == "None"

\* lines 57-60: the first header whose lowercased name holds 'id'
FirstIdHeader(headers) ==
  IF \E i \in 1..Len(headers) : ContainsId(headers[i])
  THEN headers[CHOOSE i \in 1..Len(headers) :
                 /\ ContainsId(headers[i])
                 /\ \A j \in 1..(i - 1) : ~ContainsId(headers[j])]
  ELSE NoColumn

\* lines 57-62: the last header with a date word that was not taken as the id
DateColumn(headers) ==
  LET dates == {i \in 1..Len(headers) :
                  /\ HasDateWord(headers[i])
                  /\ ~(ContainsId(headers[i]) /\ headers[i] = FirstIdHeader(headers)
                       /\ \A j \in 1..(i - 1) : ~ContainsId(headers[j]))}
  IN  IF dates = {} THEN NoColumn
      ELSE headers[CHOOSE i \in dates : \A j \in dates : j <= i]

\* lines 65-73: the Jira identifiers tried when no header holds 'id'
RECURSIVE IdFallback(_, _)
IdFallback(headers, candidates) ==
  IF Len(candidates) = 0 THEN NoColumn
  ELSE IF InSeq(Head(candidates), headers) THEN Head(candidates)
  ELSE IF HasNormalized(headers, Lower[Head(candidates)])
  THEN Normalized(headers, Lower[Head(candidates)])
  ELSE IdFallback(headers, Tail(candidates))

IdColumn(headers) ==
  IF FirstIdHeader(headers) # NoColumn THEN FirstIdHeader(headers)
  ELSE IdFallback(headers,
                  <<"Issue key", "Issue id", "ticket_id", "Ticket ID", "ID">>)

\* lines 76-84: the Jira text columns appended when detection missed them
RECURSIVE EnsureTextColumns(_, _, _)
EnsureTextColumns(text, headers, candidates) ==
  IF Len(candidates) = 0 THEN text
  ELSE LET candidate == Head(candidates)
           added ==
             IF InSeq(candidate, headers) /\ ~InSeq(candidate, text)
             THEN Append(text, candidate)
             ELSE IF /\ HasNormalized(headers, Lower[candidate])
                     /\ ~InSeq(Normalized(headers, Lower[candidate]), text)
                  THEN Append(text, Normalized(headers, Lower[candidate]))
                  ELSE text
       IN  EnsureTextColumns(added, headers, Tail(candidates))

\* lines 87-88: deduplicate while preserving order
RECURSIVE Dedup(_)
Dedup(seq) ==
  IF Len(seq) = 0 THEN seq
  ELSE LET front == Dedup(SubSeq(seq, 1, Len(seq) - 1))
       IN  IF InSeq(seq[Len(seq)], front) THEN front
           ELSE Append(front, seq[Len(seq)])

\* lines 94-97: sorted() by the number in the column name; the sort is stable
RECURSIVE SortBySuffixFrom(_, _)
SortBySuffixFrom(cols, k) ==
  IF k > MaxSuffix THEN <<>>
  ELSE SelectSeq(cols, LAMBDA c : SuffixNumber(c) = k)
         \o SortBySuffixFrom(cols, k + 1)

SortBySuffix(cols) == SortBySuffixFrom(cols, 0)

\* lines 100-107: the high-signal fields
RECURSIVE Preferred(_, _, _)
Preferred(text, headers, candidates) ==
  IF Len(candidates) = 0 THEN <<>>
  ELSE LET candidate == Head(candidates)
           rest == Preferred(text, headers, Tail(candidates))
       IN  IF InSeq(candidate, text) THEN <<candidate>> \o rest
           ELSE IF HasNormalized(headers, Lower[candidate])
                THEN <<Normalized(headers, Lower[candidate])>> \o rest
                ELSE rest

NoMapping == [exists |-> FALSE, source |-> "none", headers |-> <<>>,
              text_columns |-> <<>>, id_column |-> NoColumn,
              date_column |-> NoColumn, comment_columns |-> <<>>]

\* create_mapping, lines 43-115: the mapping it stores and returns
CreateMappingResult(csv_headers, source_name) ==
  LET text == Dedup(EnsureTextColumns(DetectTextColumns(csv_headers), csv_headers,
                      <<"Summary", "Description", "Comment", "Comments",
                        "Issue summary">>))
      preferred == Preferred(text, csv_headers,
                             <<"Summary", "Description", "Parent summary">>)
  IN  [exists |-> TRUE,
       source |-> source_name,
       headers |-> csv_headers,
       text_columns |-> IF Len(preferred) > 0 THEN preferred ELSE text,
       id_column |-> IdColumn(csv_headers),
       date_column |-> DateColumn(csv_headers),
       comment_columns |-> SortBySuffix(SelectSeq(text, StartsWithComment))]

\* lines 131-132 without the insertion of the id column
WithIdColumnOmitted(columns, id_column) == columns

\* lines 131-132: the id column goes first unless it is already kept
WithIdColumn(columns, id_column) ==
  IF id_column # NoColumn /\ ~InSeq(id_column, columns)
  THEN <<id_column>> \o columns ELSE columns

\* lines 135-137: the metadata columns the table has
RECURSIVE WithMetadata(_, _, _)
WithMetadata(columns, tableColumns, metadata) ==
  IF Len(metadata) = 0 THEN columns
  ELSE WithMetadata(
         IF InSeq(Head(metadata), tableColumns) /\ ~InSeq(Head(metadata), columns)
         THEN Append(columns, Head(metadata)) ELSE columns,
         tableColumns, Tail(metadata))

\* apply_mapping, lines 121-145
ApplyMappingResult(table, mapping) ==
  LET kept == WithMetadata(
                WithIdColumn(mapping.text_columns \o mapping.comment_columns,
                             mapping.id_column),
                table.columns, <<"Parent", "Issue Type", "Issue type">>)
      existing == SelectSeq(kept, LAMBDA c : InSeq(c, table.columns))
  IN  IF Len(existing) > 0
      THEN [columns |-> existing, rows |-> table.rows]
      ELSE table

NoTable == [columns |-> <<>>, rows |-> -1]

\* mapper.apply_mapping(df, mapper.create_mapping(list(df.columns), name))
MapTable ==
  /\ mapResult = NoTable
  /\ mapMapping' = CreateMappingResult(mapTable.columns, "test_mapping")
  /\ mapResult' = ApplyMappingResult(mapTable, mapMapping')
  /\ UNCHANGED <<jobVars, ingestVars, moreVars, trajVars, aggVars, causalVars, parseVars,
                 mapTable, cacheVars, seqVars>>

MapInit ==
  /\ mapTable \in [columns : DistinctSeqs(HeaderUniverse, MaxHeaders),
                   rows : 0..MaxTableRows]
  /\ mapMapping = NoMapping
  /\ mapResult = NoTable

MapIdle ==
  /\ mapTable = [columns |-> <<>>, rows |-> 0]
  /\ mapMapping = NoMapping
  /\ mapResult = NoTable


\* ------------------------------------- cached column mappings (SpecMapCache)
\* upload_<job_id> of the upload tasks, and 'jira' of process_parquet_data
SourceNames == {"upload_j1", "jira"}

\* the header lists of the chunks and files handed to the mapper
HeaderLists ==
  {<<"ticket_id", "Summary">>, <<"Issue key", "Comment">>, <<"status">>}

\* create_mapping, lines 43-115: the mapping is stored under the source name
\* (line 112) and saved, whatever the cache held
CreateMapping(csv_headers, source_name) ==
  /\ mapCalls < MaxMapCalls
  /\ mapCalls' = mapCalls + 1
  /\ mapCache' = [mapCache EXCEPT
                    ![source_name] = CreateMappingResult(csv_headers, source_name)]
  /\ mapFirst' = IF mapFirst[source_name].exists THEN mapFirst
                 ELSE [mapFirst EXCEPT ![source_name] = mapCache'[source_name]]
  /\ mapMapping' = mapCache'[source_name]
  /\ UNCHANGED <<jobVars, ingestVars, moreVars, trajVars, aggVars, causalVars, parseVars,
                 mapTable, mapResult, seqVars>>

\* get_mapping, lines 117-119
GetMapping(source_name) ==
  /\ mapCalls < MaxMapCalls
  /\ mapCalls' = mapCalls + 1
  /\ mapMapping' = mapCache[source_name]
  /\ UNCHANGED <<jobVars, ingestVars, moreVars, trajVars, aggVars, causalVars, parseVars,
                 mapTable, mapResult, mapCache, mapFirst, seqVars>>

\* process_chunk, ingest_job.py lines 503-510: the cached mapping, or a new
\* one from the columns of the chunk, then apply_mapping
ProcessChunkMapping(columns, rows, mapping_name) ==
  /\ mapCalls < MaxMapCalls
  /\ mapCalls' = mapCalls + 1
  /\ mapCache' = IF mapCache[mapping_name].exists THEN mapCache
                 ELSE [mapCache EXCEPT
                         ![mapping_name] = CreateMappingResult(columns, mapping_name)]
  /\ mapFirst' = IF mapFirst[mapping_name].exists THEN mapFirst
                 ELSE [mapFirst EXCEPT ![mapping_name] = mapCache'[mapping_name]]
  /\ mapTable' = [columns |-> columns, rows |-> rows]
  /\ mapMapping' = mapCache'[mapping_name]
  /\ mapResult' = ApplyMappingResult(mapTable', mapMapping')
  /\ UNCHANGED <<jobVars, ingestVars, moreVars, trajVars, aggVars, causalVars, parseVars,
                 seqVars>>

\* load_mappings, lines 11-16: no mapping file yet
CacheIdle ==
  /\ mapCache = [n \in SourceNames |-> NoMapping]
  /\ mapFirst = [n \in SourceNames |-> NoMapping]
  /\ mapCalls = 0


\* ------------------------------------ comment fragment numbering (SpecSeq)
\* a row: its ticket id and the number of its comment columns that hold text
SeqTickets == {"T1", "T2"}
SeqRows == [ticket_id : SeqTickets, comments : 0..MaxComments]
SeqChunkSet == UNION {[1..n -> SeqRows] : n \in 1..MaxSeqRows}
SeqSourceSet == UNION {[1..n -> SeqChunkSet] : n \in 1..MaxSeqChunks}

\* process_chunk, ingest_job.py lines 623-668: comment_count starts at 0 for
\* the row (line 624) and is the comment_number of each comment it stores
CommentFragments(row) ==
  [i \in 1..row.comments |->
     [ticket_id |-> row.ticket_id, field_type |-> "comment",
      comment_number |-> i]]

\* the row loop of process_chunk, lines 519-668: the next row of the chunk
SeqProcessRow ==
  /\ seqChunk < Len(seqSource)
  /\ seqRow < Len(seqSource[seqChunk + 1])
  /\ seqSession' = seqSession \o CommentFragments(seqSource[seqChunk + 1][seqRow + 1])
  /\ seqRow' = seqRow + 1
  /\ UNCHANGED <<jobVars, ingestVars, moreVars, trajVars, aggVars, causalVars, parseVars,
                 mapVars, cacheVars, seqSource, seqChunk, seqStored>>

\* process_chunk returns and the chunk loop takes the next chunk,
\* lines 195-201
SeqNextChunk ==
  /\ seqChunk < Len(seqSource)
  /\ seqRow = Len(seqSource[seqChunk + 1])
  /\ seqChunk' = seqChunk + 1
  /\ seqRow' = 0
  /\ UNCHANGED <<jobVars, ingestVars, moreVars, trajVars, aggVars, causalVars, parseVars,
                 mapVars, cacheVars, seqSource, seqSession, seqStored>>

\* the with block ends, database.py line 51: commit
SeqCommit ==
  /\ seqChunk = Len(seqSource)
  /\ Len(seqSession) > 0
  /\ seqStored' = seqStored \o seqSession
  /\ seqSession' = <<>>
  /\ UNCHANGED <<jobVars, ingestVars, moreVars, trajVars, aggVars, causalVars, parseVars,
                 mapVars, cacheVars, seqSource, seqChunk, seqRow>>

SeqInit ==
  /\ seqSource \in SeqSourceSet
  /\ seqChunk = 0
  /\ seqRow = 0
  /\ seqSession = <<>>
  /\ seqStored = <<>>

SeqIdle ==
  /\ seqSource = <<>>
  /\ seqChunk = 0
  /\ seqRow = 0
  /\ seqSession = <<>>
  /\ seqStored = <<>>

\* ------------------------------ the job-status functions as called (SpecOps)
\* Every call is made on two processes at once, one whose cache.redis_client
\* is set and one that fell back to memory, so that the two hold the records
\* of one and the same history of calls.
OpsJobIds == {"a", "b"}
MaxOps == 4
MaxLimit == 2

\* the status argument of list_jobs: None, or one of the four statuses
StatusArgs == {"None", "queued", "running", "completed", "failed"}

\* what one chunk adds to (records_processed, sentiment_records,
\* entity_records)
OpsInc == <<1, 2, 1>>

\* zadd(JOB_INDEX_KEY, {job_id: timestamp}), line 32: the member moves to the
\* highest score
Zadd(index, j) == SelectSeq(index, LAMBDA x : x # j) \o <<j>>

\* lines 34-36: if job_id not in _local_index: _local_index.append(job_id)
LocalAppend(index, j) ==
  IF \E i \in 1..Len(index) : index[i] = j THEN index ELSE Append(index, j)

Reversed(s) == [i \in 1..Len(s) |-> s[Len(s) + 1 - i]]

\* zrevrange(JOB_INDEX_KEY, 0, limit - 1), line 124: a stop of -1 is the last
\* member
Zrevrange(index, limit) ==
  LET r == Reversed(index)
      stop == IF limit = 0 THEN Len(r) ELSE Min(limit, Len(r))
  IN  [i \in 1..stop |-> r[i]]

\* the loop bodies of lines 125-134 and 136-144 over the ids in turn
RECURSIVE CollectJobs(_, _, _, _, _)
CollectJobs(ids, store, status, limit, results) ==
  IF Len(ids) = 0 THEN results
  ELSE LET j == Head(ids)
           job == store[j]
       IN  IF ~job.exists \/ (status # "None" /\ job.status # status)
           THEN CollectJobs(Tail(ids), store, status, limit, results)
           ELSE LET r == Append(results, [job_id |-> j, status |-> job.status])
                IN  IF Len(r) >= limit THEN r
                    ELSE CollectJobs(Tail(ids), store, status, limit, r)

\* list_jobs, lines 121-145, with a redis client
ListJobsRedis(status, limit) ==
  CollectJobs(Zrevrange(kvIndex, limit), kvStore, status, limit, <<>>)

\* list_jobs, lines 121-145, on the in-memory fallback
ListJobsLocal(status, limit) ==
  CollectJobs(Reversed(memIndex), memStore, status, limit, <<>>)

NotListed == [called |-> FALSE, status |-> "None", limit |-> 0,
              redis |-> <<>>, local |-> <<>>]

\* _save_job, lines 28-36, on either process
SaveBoth(j, kvData, memData) ==
  /\ opsDone' = opsDone + 1
  /\ kvStore' = [kvStore EXCEPT ![j] = kvData]
  /\ kvIndex' = Zadd(kvIndex, j)
  /\ memStore' = [memStore EXCEPT ![j] = memData]
  /\ memIndex' = LocalAppend(memIndex, j)
  /\ UNCHANGED <<jobVars, ingestVars, trajVars, aggVars, causalVars, parseVars,
                 mapVars, cacheVars, seqVars, submitVars, laterVars, listed>>

\* _update_job, lines 51-58, on either process
UpdateBoth(j, upd) ==
  SaveBoth(j, ApplyUpdates(kvStore[j], upd), ApplyUpdates(memStore[j], upd))

\* init_job, lines 61-78: the endpoints call it once per job id
InitJobCall(j) ==
  /\ opsDone < MaxOps
  /\ \A i \in 1..Len(memIndex) : memIndex[i] # j
  /\ SaveBoth(j, InitPayload, InitPayload)

\* mark_job_running, lines 81-86
MarkJobRunningCall(j) ==
  /\ opsDone < MaxOps
  /\ UpdateBoth(j, RunningUpdates(opsDone))

\* increment_job_progress, lines 89-96
IncrementJobProgressCall(j) ==
  /\ opsDone < MaxOps
  /\ SaveBoth(j, ApplyUpdates(kvStore[j], NewTotals(kvStore[j], OpsInc)),
                 ApplyUpdates(memStore[j], NewTotals(memStore[j], OpsInc)))

\* update_job_metadata, lines 99-100
UpdateJobMetadataCall(j) ==
  /\ opsDone < MaxOps
  /\ UpdateBoth(j, [NoUpdates EXCEPT !.total_rows = 1])

\* mark_job_completed, lines 103-107
MarkJobCompletedCall(j) ==
  /\ opsDone < MaxOps
  /\ UpdateBoth(j, CompletedUpdates(opsDone, NoUpdates))

\* mark_job_failed, lines 110-114
MarkJobFailedCall(j) ==
  /\ opsDone < MaxOps
  /\ UpdateBoth(j, FailedUpdates(opsDone, "e1", NoUpdates))

\* the key set by setex(key, JOB_TTL_SECONDS, ...), line 31, runs out; the
\* sorted set of line 32 carries no expiry
Expire(j) ==
  /\ kvStore[j].exists
  /\ kvStore' = [kvStore EXCEPT ![j] = EmptyJob]
  /\ UNCHANGED <<jobVars, ingestVars, trajVars, aggVars, causalVars, parseVars,
                 mapVars, cacheVars, seqVars, submitVars, laterVars, kvIndex, memStore,
                 memIndex,
                 opsDone, listed>>

\* list_jobs, lines 121-145, asked of either process
ListJobs(status, limit) ==
  /\ opsDone < MaxOps
  /\ opsDone' = opsDone + 1
  /\ listed' = [called |-> TRUE, status |-> status, limit |-> limit,
                redis |-> ListJobsRedis(status, limit),
                local |-> ListJobsLocal(status, limit)]
  /\ UNCHANGED <<jobVars, ingestVars, trajVars, aggVars, causalVars, parseVars,
                 mapVars, cacheVars, seqVars, submitVars, laterVars, kvStore, kvIndex, memStore,
                 memIndex>>

OpsInit ==
  /\ kvStore = [j \in OpsJobIds |-> EmptyJob]
  /\ kvIndex = <<>>
  /\ memStore = [j \in OpsJobIds |-> EmptyJob]
  /\ memIndex = <<>>
  /\ opsDone = 0
  /\ listed = NotListed

OpsIdle ==
  /\ kvStore = [j \in OpsJobIds |-> EmptyJob]
  /\ kvIndex = <<>>
  /\ memStore = [j \in OpsJobIds |-> EmptyJob]
  /\ memIndex = <<>>
  /\ opsDone = 0
  /\ listed = NotListed

\* --------------------------------- submission by the endpoints (SpecSubmit)
\* the endpoints that create a job: upload_csv and ingest_data
\* (api/ingest_csv.py), upload_parquet (api/parquet_ingest.py) and
\* ingest_jira_parquet (api/jira_ingest.py)
Routes == {"upload_csv", "ingest_data", "upload_parquet", "ingest_jira_parquet"}

\* the endpoints whose hand-over to the task queue stands inside a try whose
\* handler calls mark_job_failed: ingest_csv.py lines 206-230 and 261-279,
\* parquet_ingest.py lines 58-111; jira_ingest.py line 50 stands outside any
HandlesQueueFailure(r) == r \in {"upload_csv", "ingest_data", "upload_parquet"}

\* init_job of the endpoint, ingest_csv.py lines 195-204 and 249-256,
\* parquet_ingest.py lines 51-56, jira_ingest.py lines 43-48
SubmitInitJob(j) ==
  /\ subSend = "none"
  /\ InitJob("api", j)
  /\ UNCHANGED <<ingestVars, trajVars, aggVars, causalVars, parseVars, mapVars,
                 cacheVars, seqVars, opsVars, laterVars, subRoute, subSend>>

\* celery_app.send_task / process_parquet_job.delay returns: the endpoint
\* answers with the job id
SendTaskOk ==
  /\ endpoint = "submitted"
  /\ call["api"].op = "idle"
  /\ subSend = "none"
  /\ subSend' = "sent"
  /\ endpoint' = "returned"
  /\ UNCHANGED <<redisUp, client, redisStore, redisIndex, localStore, localIndex,
                 call, ret, clock, wpc, stats, chunkNo, deliveries, incLog,
                 ingestVars, trajVars, aggVars, causalVars, parseVars, mapVars,
                 cacheVars, seqVars, opsVars, laterVars, subRoute>>

\* ... or raises (the broker cannot be reached): the handler of the endpoint
\* runs where there is one, otherwise the exception leaves the endpoint
SendTaskRaises ==
  /\ endpoint = "submitted"
  /\ call["api"].op = "idle"
  /\ subSend = "none"
  /\ subSend' = "raised"
  /\ endpoint' = IF HandlesQueueFailure(subRoute) THEN "handler" ELSE "returned"
  /\ UNCHANGED <<redisUp, client, redisStore, redisIndex, localStore, localIndex,
                 call, ret, clock, wpc, stats, chunkNo, deliveries, incLog,
                 ingestVars, trajVars, aggVars, causalVars, parseVars, mapVars,
                 cacheVars, seqVars, opsVars, laterVars, subRoute>>

\* mark_job_failed(job_id, str(e)) of the handler, ingest_csv.py lines 229 and
\* 278, parquet_ingest.py line 110: read and update the record
HandlerMarkJobFailed(j) ==
  /\ endpoint = "handler"
  /\ endpoint' = "marking"
  /\ BeginUpdate("api", j, "mark_job_failed", FailedUpdates(NowIso, "e1", NoUpdates))
  /\ UNCHANGED <<ingestVars, trajVars, aggVars, causalVars, parseVars, mapVars,
                 cacheVars, seqVars, opsVars, laterVars, subRoute, subSend>>

\* ... save it, and raise HTTPException(500)
HandlerSaveJob ==
  /\ endpoint = "marking"
  /\ endpoint' = "returned"
  /\ IF call["api"].pc = "write"
     THEN /\ IF StoreDown("api")
             THEN Raises("api")
             ELSE SaveJobRec("api", call["api"].jid, call["api"].job, call["api"].op)
          /\ UNCHANGED <<redisUp, client, clock, chunkNo, deliveries>>
     ELSE UNCHANGED <<redisUp, client, redisStore, redisIndex, localStore,
                      localIndex, call, ret, clock, wpc, stats, chunkNo,
                      deliveries, incLog>>
  /\ UNCHANGED <<ingestVars, trajVars, aggVars, causalVars, parseVars, mapVars,
                 cacheVars, seqVars, opsVars, laterVars, subRoute, subSend>>

\* the shared store stops answering while the request is served
SubmitRedisDown ==
  /\ endpoint # "returned"
  /\ RedisDown
  /\ UNCHANGED <<ingestVars, trajVars, aggVars, causalVars, parseVars, mapVars,
                 cacheVars, seqVars, opsVars, laterVars, subRoute, subSend>>

\* time passes while the request is served
SubmitTick ==
  /\ endpoint # "returned"
  /\ Tick
  /\ UNCHANGED <<ingestVars, trajVars, aggVars, causalVars, parseVars, mapVars,
                 cacheVars, seqVars, opsVars, laterVars, subRoute, subSend>>

SubmitInit ==
  /\ subRoute \in Routes
  /\ subSend = "none"

SubmitIdle ==
  /\ subRoute = "upload_csv"
  /\ subSend = "none"


\* ----------------- repeated calls on one analyzer instance (SpecAnalyzer)
MaxAnalyzerCalls == 3

\* SentimentTrajectoryAnalyzer.__init__, lines 70-99: the word sets the
\* instance carries (the words that occur in the texts below)
NewAnalyzer == [sentiment_intensifiers |-> {"very"},
                sentiment_diminishers |-> {"slightly"}]

\* comment texts, word by word
CallTexts == {<<"very", "bad">>, <<"ok">>}

\* the arguments of a call: two comments and their predictions
CallInputs ==
  [ticket_id : {"T1", "T2"},
   comments : [1..2 -> CallTexts],
   predictions : {<<[label |-> "negative", confidence |-> 9],
                    [label |-> "positive", confidence |-> 9]>>,
                  <<[label |-> "positive", confidence |-> 9],
                    [label |-> "positive", confidence |-> 9]>>}]

\* calculate_intensity, lines 113-127: the cues counted in a text against the
\* word sets of the instance
Cues(self, text) ==
  [intensifiers |-> Cardinality({i \in 1..Len(text) : text[i] \in self.sentiment_intensifiers}),
   diminishers |-> Cardinality({i \in 1..Len(text) : text[i] \in self.sentiment_diminishers}),
   exclamations |-> 0,
   caps |-> 0]

\* analyze_trajectory, lines 175-232, on an instance
AnalyzeOn(self, input) ==
  AnalyzeTrajectoryResult([i \in 1..Len(input.comments) |-> Cues(self, input.comments[i])],
                          input.predictions)

\* a variant that keeps the words of the texts it has analysed as intensifiers
SelfAfterCallLearning(self, input) ==
  [self EXCEPT !.sentiment_intensifiers =
     @ \cup UNION {{input.comments[i][k] : k \in 1..Len(input.comments[i])} :
                     i \in 1..Len(input.comments)}]

\* analyze_trajectory, lines 175-232: no attribute of self is assigned
SelfAfterCall(self, input) == self

\* a caller invokes analyze_trajectory on the shared instance
AnalyzeCall(input) ==
  /\ Len(anCalls) < MaxAnalyzerCalls
  /\ anCalls' = Append(anCalls, [input |-> input,
                                 result |-> AnalyzeOn(anInstance, input)])
  /\ anInstance' = SelfAfterCall(anInstance, input)
  /\ UNCHANGED <<jobVars, ingestVars, trajVars, aggVars, causalVars, parseVars,
                 mapVars, cacheVars, seqVars, opsVars, submitVars, ticketVars>>

AnalyzerInit ==
  /\ anInstance = NewAnalyzer
  /\ anCalls = <<>>

AnalyzerIdle ==
  /\ anInstance = NewAnalyzer
  /\ anCalls = <<>>


\* ------------------------------- the aggregate stored on a ticket (SpecTicket)
MaxTicketRows == 2
MaxRowComments == 1

\* a row of a chunk: its ticket, the label the classification service gives
\* its summary ("none": the row has no summary text) and those of its comments
TicketIds == {"T1", "T2"}
RowLabels == {"positive", "negative"}
TicketRows ==
  [ticket_id : TicketIds, summary : {"none"} \cup RowLabels,
   comments : SeqsUpTo(RowLabels, MaxRowComments)]

\* the Ticket row the model creates, models/ticket.py lines 33-36
NewTicket == [exists |-> FALSE, ultimate_sentiment |-> "None",
              ultimate_confidence |-> NoVal, sentiment_trend |-> "None",
              comment_count |-> 0]

\* process_chunk, ingest_job.py lines 569-668: the SentimentResult rows added
\* for one row of the chunk, summary first
RowFragments(row) ==
  (IF row.summary = "none" THEN <<>>
   ELSE <<[ticket_id |-> row.ticket_id, field_type |-> "summary",
           sentiment |-> row.summary, confidence |-> 87]>>)
  \o [i \in 1..Len(row.comments) |->
        [ticket_id |-> row.ticket_id, field_type |-> "comment",
         sentiment |-> row.comments[i], confidence |-> 87]]

\* the sentiment_results list of the row, lines 567, 589-593, 660-664
SentimentResults(frags) ==
  [i \in 1..Len(frags) |->
     [sentiment |-> frags[i].sentiment, confidence |-> frags[i].confidence]]

\* lines 545-565 and 670-681: the ticket is created or found, and given the
\* aggregate of the row's sentiment_results when the row has any
TicketAfterRow(ticket, row) ==
  LET results == SentimentResults(RowFragments(row))
      ultimate == CalculateUltimateResult(results, "weighted_recent")
  IN  IF Len(results) = 0 THEN [ticket EXCEPT !.exists = TRUE]
      ELSE [exists |-> TRUE,
            ultimate_sentiment |-> ultimate.sentiment,
            ultimate_confidence |-> ultimate.confidence,
            sentiment_trend |-> ultimate.trend,
            comment_count |-> Len(row.comments)]

\* the row loop of process_chunk, lines 519-743: the next row
TicketProcessRow ==
  /\ tkRow < Len(tkSource)
  /\ LET row == tkSource[tkRow + 1]
     IN  /\ tkTickets' = [tkTickets EXCEPT ![row.ticket_id] = TicketAfterRow(@, row)]
         /\ tkFrags' = tkFrags \o RowFragments(row)
  /\ tkRow' = tkRow + 1
  /\ UNCHANGED <<jobVars, ingestVars, trajVars, aggVars, causalVars, parseVars,
                 mapVars, cacheVars, seqVars, opsVars, submitVars, analyzerVars,
                 tkSource>>

TicketInit ==
  /\ tkSource \in SeqsUpTo(TicketRows, MaxTicketRows)
  /\ tkRow = 0
  /\ tkTickets = [t \in TicketIds |-> NewTicket]
  /\ tkFrags = <<>>

TicketIdle ==
  /\ tkSource = <<>>
  /\ tkRow = 0
  /\ tkTickets = [t \in TicketIds |-> NewTicket]
  /\ tkFrags = <<>>

MoreIdle == OpsIdle /\ SubmitIdle /\ AnalyzerIdle /\ TicketIdle


\* ------------------------------------------------------- specifications
vars == <<jobVars, ingestVars, fnVars>>

Next ==
  \/ \E j \in JobIds : InitJob("api", j) /\ UNCHANGED <<ingestVars, fnVars>>
  \/ Deliver /\ UNCHANGED <<ingestVars, fnVars>>
  \/ \E j \in JobIds : MarkJobRunning("worker", j) /\ UNCHANGED <<ingestVars, fnVars>>
  \/ \E j \in JobIds : UpdateJobMetadata("worker", j) /\ UNCHANGED <<ingestVars, fnVars>>
  \/ TakeChunk /\ UNCHANGED <<ingestVars, fnVars>>
  \/ \E j \in JobIds : IncrementRead("worker", j) /\ UNCHANGED <<ingestVars, fnVars>>
  \/ IncrementUpdate("worker") /\ UNCHANGED <<ingestVars, fnVars>>
  \/ EndOfSource /\ UNCHANGED <<ingestVars, fnVars>>
  \/ JobScopeFailure /\ UNCHANGED <<ingestVars, fnVars>>
  \/ \E j \in JobIds : MarkJobCompleted("worker", j) /\ UNCHANGED <<ingestVars, fnVars>>
  \/ \E p \in Procs, j \in JobIds : MarkJobFailed(p, j) /\ UNCHANGED <<ingestVars, fnVars>>
  \/ \E p \in Procs : SaveJob(p) /\ UNCHANGED <<ingestVars, fnVars>>
  \/ \E j \in JobIds : GetJob("api", j) /\ UNCHANGED <<ingestVars, fnVars>>
  \/ Tick /\ UNCHANGED <<ingestVars, fnVars>>
  \/ RedisDown /\ UNCHANGED <<ingestVars, fnVars>>

Init == JobsInit /\ IngestIdle /\ TrajIdle /\ AggIdle /\ CausalIdle /\ ParseIdle /\ MapIdle /\ CacheIdle /\ SeqIdle /\ MoreIdle

Spec == Init /\ [][Next]_vars

\* the steps of a task on a worker that does not crash: a task that can take
\* its next step takes it
WorkerStep ==
  \/ \E j \in JobIds : MarkJobRunning("worker", j) /\ UNCHANGED <<ingestVars, fnVars>>
  \/ \E j \in JobIds : UpdateJobMetadata("worker", j) /\ UNCHANGED <<ingestVars, fnVars>>
  \/ TakeChunk /\ UNCHANGED <<ingestVars, fnVars>>
  \/ \E j \in JobIds : IncrementRead("worker", j) /\ UNCHANGED <<ingestVars, fnVars>>
  \/ IncrementUpdate("worker") /\ UNCHANGED <<ingestVars, fnVars>>
  \/ EndOfSource /\ UNCHANGED <<ingestVars, fnVars>>
  \/ \E j \in JobIds : MarkJobCompleted("worker", j) /\ UNCHANGED <<ingestVars, fnVars>>
  \/ \E j \in JobIds : MarkJobFailed("worker", j) /\ UNCHANGED <<ingestVars, fnVars>>
  \/ SaveJob("worker") /\ UNCHANGED <<ingestVars, fnVars>>

SpecLive == Init /\ [][Next]_vars /\ WF_vars(WorkerStep)

IngestNext ==
  \/ TaskDeliver /\ UNCHANGED fnVars
  \/ TaskStart /\ UNCHANGED fnVars
  \/ TaskChunk /\ UNCHANGED fnVars
  \/ TaskFinish /\ UNCHANGED fnVars
  \/ TaskTick /\ UNCHANGED fnVars

InitIngest == IngestInit /\ TrajIdle /\ AggIdle /\ CausalIdle /\ ParseIdle /\ MapIdle /\ CacheIdle /\ SeqIdle /\ MoreIdle

SpecIngest == InitIngest /\ [][IngestNext]_vars

InitTasks == TasksInit /\ TrajIdle /\ AggIdle /\ CausalIdle /\ ParseIdle /\ MapIdle /\ CacheIdle /\ SeqIdle /\ MoreIdle

SpecTasks == InitTasks /\ [][IngestNext]_vars

TrajNext ==
  AnalyzeTrajectory /\ UNCHANGED <<aggVars, causalVars, parseVars, mapVars, cacheVars, seqVars,
                                  moreVars>>

InitTraj == JobsIdle /\ IngestIdle /\ TrajInit /\ AggIdle /\ CausalIdle /\ ParseIdle /\ MapIdle /\ CacheIdle /\ SeqIdle /\ MoreIdle

SpecTraj == InitTraj /\ [][TrajNext]_vars

InitScenario == JobsIdle /\ IngestIdle /\ ScenarioInit /\ AggIdle /\ CausalIdle /\ ParseIdle /\ MapIdle /\ CacheIdle /\ SeqIdle /\ MoreIdle

SpecScenario == InitScenario /\ [][TrajNext]_vars

CausalNext == AnalyzeCausalFactors

InitCausal == JobsIdle /\ IngestIdle /\ TrajIdle /\ AggIdle /\ CausalInit /\ ParseIdle /\ MapIdle /\ CacheIdle /\ SeqIdle /\ MoreIdle

SpecCausal == InitCausal /\ [][CausalNext]_vars

ParseNext == Parse

InitParse == JobsIdle /\ IngestIdle /\ TrajIdle /\ AggIdle /\ CausalIdle /\ ParseInit /\ MapIdle /\ CacheIdle /\ SeqIdle /\ MoreIdle

SpecParse == InitParse /\ [][ParseNext]_vars

MapNext == MapTable

InitMap ==
  JobsIdle /\ IngestIdle /\ TrajIdle /\ AggIdle /\ CausalIdle /\ ParseIdle /\ MapInit /\ CacheIdle /\ SeqIdle /\ MoreIdle

SpecMap == InitMap /\ [][MapNext]_vars

MapCacheNext ==
  \/ \E h \in HeaderLists, n \in SourceNames : CreateMapping(h, n)
  \/ \E n \in SourceNames : GetMapping(n)
  \/ \E h \in HeaderLists, r \in 0..MaxTableRows, n \in SourceNames :
       ProcessChunkMapping(h, r, n)

InitMapCache ==
  JobsIdle /\ IngestIdle /\ TrajIdle /\ AggIdle /\ CausalIdle /\ ParseIdle /\ MapIdle /\ CacheIdle /\ SeqIdle /\ MoreIdle

SpecMapCache == InitMapCache /\ [][MapCacheNext]_vars

SeqNext ==
  \/ SeqProcessRow
  \/ SeqNextChunk
  \/ SeqCommit

InitSeq ==
  JobsIdle /\ IngestIdle /\ TrajIdle /\ AggIdle /\ CausalIdle /\ ParseIdle /\ MapIdle /\ CacheIdle /\ SeqInit /\ MoreIdle

SpecSeq == InitSeq /\ [][SeqNext]_vars

AggNext == \E strategy \in Strategies : CalculateUltimate(strategy)

InitAgg == JobsIdle /\ IngestIdle /\ TrajIdle /\ AggInit /\ CausalIdle /\ ParseIdle /\ MapIdle /\ CacheIdle /\ SeqIdle /\ MoreIdle

SpecAgg == InitAgg /\ [][AggNext]_vars

OpsNext ==
  \/ \E j \in OpsJobIds : InitJobCall(j)
  \/ \E j \in OpsJobIds : MarkJobRunningCall(j)
  \/ \E j \in OpsJobIds : IncrementJobProgressCall(j)
  \/ \E j \in OpsJobIds : UpdateJobMetadataCall(j)
  \/ \E j \in OpsJobIds : MarkJobCompletedCall(j)
  \/ \E j \in OpsJobIds : MarkJobFailedCall(j)
  \/ \E j \in OpsJobIds : Expire(j)
  \/ \E status \in StatusArgs, limit \in 0..MaxLimit : ListJobs(status, limit)

InitOps ==
  JobsIdle /\ IngestIdle /\ TrajIdle /\ AggIdle /\ CausalIdle /\ ParseIdle /\ MapIdle /\ CacheIdle /\ SeqIdle /\ OpsInit /\ SubmitIdle /\ AnalyzerIdle /\ TicketIdle

SpecOps == InitOps /\ [][OpsNext]_vars

SubmitNext ==
  \/ \E j \in JobIds : SubmitInitJob(j)
  \/ SendTaskOk
  \/ SendTaskRaises
  \/ \E j \in JobIds : HandlerMarkJobFailed(j)
  \/ HandlerSaveJob
  \/ SubmitRedisDown
  \/ SubmitTick

InitSubmit ==
  JobsInit /\ IngestIdle /\ TrajIdle /\ AggIdle /\ CausalIdle /\ ParseIdle /\ MapIdle /\ CacheIdle /\ SeqIdle /\ OpsIdle /\ SubmitInit /\ AnalyzerIdle /\ TicketIdle

SpecSubmit == InitSubmit /\ [][SubmitNext]_vars

AnalyzerNext == \E input \in CallInputs : AnalyzeCall(input)

InitAnalyzer ==
  JobsIdle /\ IngestIdle /\ TrajIdle /\ AggIdle /\ CausalIdle /\ ParseIdle /\ MapIdle /\ CacheIdle /\ SeqIdle /\ OpsIdle /\ SubmitIdle /\ AnalyzerInit /\ TicketIdle

SpecAnalyzer == InitAnalyzer /\ [][AnalyzerNext]_vars

TicketNext == TicketProcessRow

InitTicket ==
  JobsIdle /\ IngestIdle /\ TrajIdle /\ AggIdle /\ CausalIdle /\ ParseIdle /\ MapIdle /\ CacheIdle /\ SeqIdle /\ OpsIdle /\ SubmitIdle /\ AnalyzerIdle /\ TicketInit

SpecTicket == InitTicket /\ [][TicketNext]_vars

\* ------------------------------------------------------------------ claims
Terminal == {"completed", "failed"}

\* C1: once a job record has status completed or failed, no later job-status
\* operation changes that status (in the shared store or in a local store).
C1_TerminalStatusNeverChanges ==
  [][\A j \in JobIds :
       /\ redisStore[j].status \in Terminal
            => redisStore'[j].status = redisStore[j].status
       /\ \A p \in Procs :
            localStore[p][j].status \in Terminal
              => localStore'[p][j].status = localStore[p][j].status]_vars

\* C2: when the queue delivers the job a second time after the first run
\* ended completed, the second run ends with status completed and with the
\* records_processed, sentiment_records and entity_records of the first run.
C2_RedeliveryKeepsRecord ==
  (deliveries = 2 /\ wpc = "ended" /\ firstRun.status = "completed")
    => /\ TheJob.status = "completed"
       /\ Counters(TheJob) = Counters(firstRun)

\* the step in which increment_job_progress of p writes and returns
IncrementReturns(p) ==
  /\ call[p].op = "increment_job_progress"
  /\ call[p].pc = "write"
  /\ call'[p].op = "idle"
  /\ ret'[p] = "ok"

\* C3: in a sequence of increment_job_progress calls on one job by a single
\* writer, each counter of the returned record is >= its value in the record
\* the previous call returned.
C3_CountersMonotone ==
  [][\A p \in Procs :
       (IncrementReturns(p) /\ incLog[p] # NoLog)
         => /\ incLog'[p].records_processed >= incLog[p].records_processed
            /\ incLog'[p].sentiment_records >= incLog[p].sentiment_records
            /\ incLog'[p].entity_records >= incLog[p].entity_records]_vars

\* two increments with non-zero counts have returned one after the other
C3_Witness ==
  /\ wpc = "chunks"
  /\ chunkNo = 2
  /\ incLog["worker"] # NoLog
  /\ incLog["worker"].sentiment_records = 4

\* C4: mark_job_running stamps started_at only when the job has none: a
\* second mark_job_running leaves started_at as the first call stamped it.
C4_StartedAtStampedOnce ==
  [][\A p \in Procs :
       (/\ call[p].op = "mark_job_running"
        /\ call[p].pc = "write"
        /\ call'[p].op = "idle"
        /\ ret'[p] = "ok"
        /\ GetJobRec(p, call[p].jid).started_at # NoVal)
         => (IF client[p] THEN redisStore'[call[p].jid]
             ELSE localStore'[p][call[p].jid]).started_at
              = GetJobRec(p, call[p].jid).started_at]_vars

\* the record as increment_job_progress of p must leave it: the stored
\* record with the three increments added and nothing else changed
Incremented(job, inc) ==
  [job EXCEPT !.exists = TRUE,
              !.records_processed = GetOr0(@) + inc[1],
              !.sentiment_records = GetOr0(@) + inc[2],
              !.entity_records = GetOr0(@) + inc[3]]

RECURSIVE GoodRowsFrom(_, _)
GoodRowsFrom(src, c) ==
  IF c > Len(src) THEN 0
  ELSE Cardinality({i \in 1..Len(src[c]) : ~src[c][i].bad}) + GoodRowsFrom(src, c + 1)

\* C6: a row that fails never aborts the job: every other row of its chunk
\* and of the later chunks is processed and counted, and the job ends
\* completed, not failed.
C6_RowFailureDoesNotAbort ==
  (wpc = "ended" /\ ~fatal)
    => /\ TheJob.status = "completed"
       /\ TheJob.records_processed = GoodRowsFrom(source, 1)
       /\ stats.processed_rows = GoodRowsFrom(source, 1)
       /\ Len(written) = GoodRowsFrom(source, 1)

\* a task has ended whose payload has a failing row followed, in the same
\* chunk, by a row that does not fail
C6_Witness ==
  /\ wpc = "ended"
  /\ ~fatal
  /\ TheJob.status = "completed"
  /\ \E c \in 1..Len(source) : \E i, k \in 1..Len(source[c]) :
       i < k /\ source[c][i].bad /\ ~source[c][k].bad

\* C7: after a job-scope failure that follows processed chunks, the job has
\* status failed and the raised message as error, and the rows written for
\* the chunks processed before the failure are persisted.
C7_FailureKeepsWrittenRows ==
  (wpc = "ended" /\ fatal /\ chunkNo >= 1)
    => /\ TheJob.status = "failed"
       /\ TheJob.error = "unreadable"
       /\ \A i \in 1..Len(written) :
            \E k \in 1..Len(committed) : committed[k] = written[i]

\* C8: a fragment whose classification call failed is recorded with label
\* neutral and confidence 0.3.
C8_FailedClassificationFallback ==
  \A i \in 1..Len(written) :
    written[i].cls_failed
      => written[i].sentiment = "neutral" /\ written[i].confidence = 3

\* C9: a store outage never makes a job-status operation raise.
C9_OutageNeverRaises ==
  \A p \in Procs : ret[p] # "raised"

\* C10: analyze_trajectory raises, and returns nothing, whenever a list is
\* empty or the two lists differ in length.
C10_ValidationError ==
  (trajResult # NoResult
   /\ (Len(trajComments) = 0 \/ Len(trajPreds) = 0
       \/ Len(trajComments) # Len(trajPreds)))
    => trajResult.raised /\ ~trajResult.returned

\* C11: for a fragment list of length one calculate_ultimate returns that
\* fragment's own label, its own confidence and trend stable, under every
\* strategy.
C11_SingleFragmentOwnLabel ==
  (Len(aggFrags) = 1 /\ aggResult # NoAggResult)
    => /\ aggResult.sentiment = aggFrags[1].sentiment
       /\ aggResult.confidence = 10 * aggFrags[1].confidence
       /\ aggResult.trend = "stable"

\* C12: for a non-empty list calculate_ultimate returns a label in
\* {positive, negative, neutral}, a confidence in [0,1] and a trend in
\* {improving, declining, stable}; for the empty list (neutral, 0.5, stable).
C12_ResultInRange ==
  aggResult # NoAggResult
    => /\ aggResult.sentiment \in Labels
       /\ aggResult.confidence \in 0..1000
       /\ aggResult.trend \in {"improving", "declining", "stable"}
       /\ Len(aggFrags) = 0
            => aggResult = [sentiment |-> "neutral", confidence |-> 500,
                            trend |-> "stable"]

C12_Witness ==
  /\ Len(aggFrags) = MaxFrags
  /\ aggStrategy = "weighted_recent"
  /\ aggResult.confidence = 870
  /\ aggResult.trend = "improving"

\* the label the weighted rule gives to at most five fragments, weights 1..k
WeightedLabel(recent) ==
  LET k == Len(recent)
      num == SumRange([i \in 1..k |->
                 SentimentScores(recent[i].sentiment) * i * recent[i].confidence],
               1, k)
      den == SumRange([i \in 1..k |-> i], 1, k)
  IN  IF 5 * num > 100 * den THEN "positive"
      ELSE IF 5 * num < -(100 * den) THEN "negative"
      ELSE "neutral"

LastFive(s) ==
  LET k == Min(5, Len(s)) IN [i \in 1..k |-> s[Len(s) - k + i]]

\* C13: under weighted_recent the label is the one the weighted rule gives to
\* the last min(5, N) fragments (so older fragments never change it), and two
\* confident positives followed by three confident negatives yield negative.
C13_WeightedRecentLastFive ==
  (aggStrategy = "weighted_recent" /\ Len(aggFrags) > 0)
    => /\ aggResult.sentiment = WeightedLabel(LastFive(aggFrags))
       /\ (/\ Len(aggFrags) = 5
           /\ \A i \in 1..5 : aggFrags[i].confidence = 87
           /\ \A i \in 1..2 : aggFrags[i].sentiment = "positive"
           /\ \A i \in 3..5 : aggFrags[i].sentiment = "negative")
            => aggResult.sentiment = "negative"

C13_Witness ==
  /\ aggStrategy = "weighted_recent"
  /\ Len(aggFrags) = 6
  /\ aggFrags[1] = [sentiment |-> "positive", confidence |-> 87]
  /\ \A i \in 2..6 : aggFrags[i].sentiment = "negative"
  /\ aggResult.sentiment = "negative"

\* the pattern the decision order gives when volatility is the mean absolute
\* consecutive difference of the signed values
PatternByMeanAbs(h) ==
  LET v == SignedValues(h)
      n == Len(v)
      n1 == n \div 3
      n3 == (n + 2) \div 3
      s1 == SumSeq(SubSeq(v, 1, n1))
      s3 == SumSeq(SubSeq(v, n - n3 + 1, n))
      firstLow == n1 > 0 /\ s1 < -(30 * n1)
      firstHigh == n1 > 0 /\ s1 > 30 * n1
  IN  IF VolatileByMeanAbs(Diff(v)) THEN "VOLATILE"
      ELSE IF firstLow /\ s3 > 30 * n3 THEN "IMPROVING"
      ELSE IF firstHigh /\ s3 < -(30 * n3) THEN "DETERIORATING"
      ELSE IF s3 > 30 * n3 THEN "CONSISTENTLY_POSITIVE"
      ELSE IF s3 < -(30 * n3) THEN "CONSISTENTLY_NEGATIVE"
      ELSE "NEUTRAL_STABLE"

\* C14: for a history of N >= 2 fragments trajectory_type is the first match
\* of VOLATILE / IMPROVING / DETERIORATING / CONSISTENTLY_POSITIVE /
\* CONSISTENTLY_NEGATIVE / NEUTRAL_STABLE, with volatility the mean absolute
\* consecutive difference of the signed values.
C14_PatternDecisionOrder ==
  (trajResult.returned /\ Len(trajResult.history) >= 2)
    => trajResult.trajectory_type = PatternByMeanAbs(trajResult.history)

LabelRank(label) ==
  CASE label = "negative" -> 0
    [] label = "neutral" -> 1
    [] OTHER -> 2

\* C15: a five-fragment history that starts negative, ends positive, never
\* moves back toward negative and has first and last signed values beyond
\* -0.3 and +0.3 is classified IMPROVING with improvement_score > 0.
C15_NegativeToPositiveImproving ==
  LET h == trajResult.history
  IN  (/\ trajResult.returned
       /\ Len(h) = 5
       /\ h[1].label = "negative" /\ h[5].label = "positive"
       /\ \A i \in 1..4 : LabelRank(h[i].label) <= LabelRank(h[i + 1].label)
       /\ SignedValue(h[1]) < -30 /\ SignedValue(h[5]) > 30)
        => /\ trajResult.trajectory_type = "IMPROVING"
           /\ trajResult.improvement_score > 0

\* the number of tickets of the population that belong to the category
Members(category) ==
  Cardinality({i \in 1..Len(causalTickets) :
                 category \in CategorizeIssue(causalTickets[i])})

FactorsOf(category) ==
  {f \in causalResult.factors : f.issue_category = category}

\* C16 (as stated): no CausalFactor for a category with fewer than
\* min_sample_size member tickets, exactly one for each category with at least
\* min_sample_size members, with sample_size equal to the membership count.
C16_SampleThreshold ==
  causalResult.returned
    => \A c \in CategoryNames :
         /\ Members(c) < causalMin => FactorsOf(c) = {}
         /\ Members(c) >= causalMin
              => /\ Cardinality(FactorsOf(c)) = 1
                 /\ \A f \in FactorsOf(c) : f.sample_size = Members(c)

\* C16 (amended): as above, for the categories that have at least one member
\* ticket; a category no ticket belongs to is never reported.
C16_SampleThresholdOfOccurring ==
  causalResult.returned
    => \A c \in CategoryNames :
         /\ (Members(c) < causalMin \/ Members(c) = 0) => FactorsOf(c) = {}
         /\ (Members(c) >= causalMin /\ Members(c) > 0)
              => /\ Cardinality(FactorsOf(c)) = 1
                 /\ \A f \in FactorsOf(c) : f.sample_size = Members(c)

C16_Witness ==
  /\ causalResult.returned
  /\ causalMin = 2
  /\ Members("performance") = 2 /\ FactorsOf("performance") # {}
  /\ Members("bug") = 1 /\ FactorsOf("bug") = {}

IsString(v) == v # NoneValue /\ v # NonString

\* the input has the shape <timestamp>;<author>;<text> once surrounding
\* whitespace is set aside
StructuralMatch(v) == IsString(v) /\ PatternMatch(Strip(v)).matched

C18_MappingKeepsIdAndRows ==
  mapResult # NoTable
    => /\ mapMapping.id_column # NoColumn
            => InSeq(mapMapping.id_column, mapResult.columns)
       /\ \A i \in 1..Len(mapResult.columns) :
            InSeq(mapResult.columns[i], mapTable.columns)
       /\ mapResult.rows = mapTable.rows

C18_Witness ==
  /\ mapTable.columns = <<"status", "Issue key", "Summary">>
  /\ mapTable.rows = 1
  /\ mapMapping.id_column = "Issue key"
  /\ mapResult.columns = <<"Issue key", "Summary">>

\* C19: after the first create_mapping for a source name, every later step
\* (later chunks, apply_mapping, a repeated create_mapping for the same source
\* with different headers) leaves get_mapping(source) equal to the mapping
\* created first.
C19_MappingImmutableOnceCached ==
  \A n \in SourceNames :
    mapFirst[n].exists => mapCache[n] = mapFirst[n]

\* C20: among the comment fragments persisted for one ticket, comment numbers
\* are strictly increasing in source order, so no two of them carry the same
\* comment_number, also when the ticket id occurs in several rows or chunks.
C20_CommentNumbersIncrease ==
  \A i, j \in 1..Len(seqStored) :
    (i < j /\ seqStored[i].ticket_id = seqStored[j].ticket_id)
      => seqStored[i].comment_number < seqStored[j].comment_number

\* C23: for every non-empty fragment list calculate_ultimate returns, under
\* latest, weighted_recent and trajectory alike, the trend of the shared
\* helper: improving when the unweighted mean signed score of the second half
\* exceeds that of the first half by more than 0.3, declining when it is lower
\* by more than 0.3, stable otherwise.
C23_SharedTrendHelper ==
  (aggResult # NoAggResult /\ Len(aggFrags) > 0)
    => aggResult.trend = CalculateTrend(aggFrags)

\* C29: the table apply_mapping returns for a mapping created from the table's
\* own headers holds each column at most once, and no column read as summary
\* or description (text_columns[0], text_columns[1]) is also a comment column.
C29_ColumnsProjectedOnce ==
  mapResult # NoTable
    => /\ \A i, j \in 1..Len(mapResult.columns) :
            i < j => mapResult.columns[i] # mapResult.columns[j]
       /\ \A i \in 1..Min(2, Len(mapMapping.text_columns)) :
            ~InSeq(mapMapping.text_columns[i], mapMapping.comment_columns)

JobStatuses == {"queued", "running", "completed", "failed"}

\* C25: every job record that get_job or list_jobs can return, on either
\* process, has a status in {queued, running, completed, failed}, whatever
\* job-status calls were made and for whatever job ids.
C25_StoredStatusValid ==
  /\ \A j \in OpsJobIds :
       /\ kvStore[j].exists => kvStore[j].status \in JobStatuses
       /\ memStore[j].exists => memStore[j].status \in JobStatuses
  /\ \A i \in 1..Len(listed.redis) : listed.redis[i].status \in JobStatuses
  /\ \A i \in 1..Len(listed.local) : listed.local[i].status \in JobStatuses

\* the job ids whose stored record has the status asked for
Matching(store, status) ==
  {j \in OpsJobIds : store[j].exists /\ (status = "None" \/ store[j].status = status)}

\* C28: list_jobs(status, limit) returns at most limit jobs, only jobs of the
\* status asked for, as many of them as there are up to limit, and the same
\* list from the process on the shared store as from the process on the
\* in-memory fallback after the same calls.
C28_ListJobsFilteredAndEqual ==
  listed.called
    => /\ Len(listed.redis) <= listed.limit
       /\ Len(listed.local) <= listed.limit
       /\ \A i \in 1..Len(listed.redis) :
            listed.status # "None" => listed.redis[i].status = listed.status
       /\ \A i \in 1..Len(listed.local) :
            listed.status # "None" => listed.local[i].status = listed.status
       /\ Len(listed.redis) = Min(listed.limit, Cardinality(Matching(kvStore, listed.status)))
       /\ Len(listed.local) = Min(listed.limit, Cardinality(Matching(memStore, listed.status)))
       /\ listed.redis = listed.local

\* C27: once an endpoint whose hand-over to the task queue raised has
\* returned, the job record it created is failed and carries the error, so no
\* such job is left queued.
C27_FailedSubmissionMarked ==
  (endpoint = "returned" /\ subSend = "raised")
    => \A j \in JobIds :
         /\ GetJobRec("api", j).status = "failed"
         /\ GetJobRec("api", j).error = "e1"

\* rows of the payload whose processing raises
RECURSIVE BadRowsFrom(_, _)
BadRowsFrom(src, c) ==
  IF c > Len(src) THEN 0
  ELSE Cardinality({i \in 1..Len(src[c]) : src[c][i].bad}) + BadRowsFrom(src, c + 1)

\* C24: when a task ends with the job completed, the errors summary it passed
\* to mark_job_completed, which the job record then carries, has one entry
\* for every row whose processing raised.
C24_ErrorsCountFailedRows ==
  (wpc = "ended" /\ ~fatal /\ TheJob.status = "completed")
    => TheJob.errors = BadRowsFrom(source, 1)

\* the counts reported through increment_job_progress for the chunks from c on
RECURSIVE ReportedFrom(_, _, _)
ReportedFrom(k, src, c) ==
  IF c > Len(src) THEN NoStats
  ELSE AddReport(ChunkReport(k, src[c]), ReportedFrom(k, src, c + 1))

\* C26: when the first run of a job ends completed, records_processed,
\* sentiment_records and entity_records of its record are the sums of the
\* per-chunk counts reported as progress over all chunks of the job, so
\* completion leaves no counter below the progress already reported.
C26_CompletedCountersAreTotals ==
  (wpc = "ended" /\ deliveries = 1 /\ TheJob.status = "completed")
    => LET total == ReportedFrom(kind, source, 1)
       IN  /\ TheJob.records_processed = total.processed_rows
           /\ TheJob.sentiment_records = total.sentiment_records
           /\ TheJob.entity_records = total.entity_records

\* C30: whenever a worker starts the task of a job, the job record the worker
\* sees later has status completed or failed: the task does not end, by
\* return or by raising, with the job left queued or running.
C30_StartedJobReachesTerminal ==
  \A j \in JobIds :
    (wpc = "mark_running") ~> (GetJobRec("worker", j).status \in Terminal)

TicketFragments(t) == SelectSeq(tkFrags, LAMBDA f : f.ticket_id = t)

\* C22: after every processed row, each ticket that has stored fragments
\* carries the ultimate sentiment, confidence and trend that
\* calculate_ultimate(weighted_recent) gives for all of its stored fragments in
\* order, and the number of its stored comment fragments as comment_count.
C22_AggregateOfAllFragments ==
  \A t \in TicketIds :
    Len(TicketFragments(t)) > 0
      => LET all == TicketFragments(t)
             ultimate == CalculateUltimateResult(SentimentResults(all), "weighted_recent")
         IN  /\ tkTickets[t].ultimate_sentiment = ultimate.sentiment
             /\ tkTickets[t].ultimate_confidence = ultimate.confidence
             /\ tkTickets[t].sentiment_trend = ultimate.trend
             /\ tkTickets[t].comment_count
                  = Len(SelectSeq(all, LAMBDA f : f.field_type = "comment"))

====
